---------------------------- MODULE Spec2Model ----------------------------
(***************************************************************************)
(* Verification model of the Med-Vis survey-visualisation front end:       *)
(*   - the years normalizer and the flow aggregation of AlluvialDiagram    *)
(*     and ChordDiagram (filteredData, sources/targets, linksMap,          *)
(*     connectionMatrix, leftArcs/rightArcs);                              *)
(*   - the highlight sequencer of AlluvialDiagram (animate, the start/stop *)
(*     effect, pauseAnimation/resumeAnimation) with its setTimeout timers; *)
(*   - the highlight sequencer of ChordDiagram (animate, the mode-cycling  *)
(*     setInterval, pauseAnimation/resumeAnimation).                       *)
(* Time passes only when a timer expires; the pending timer with the least *)
(* time left expires first.                                                *)
(***************************************************************************)
EXTENDS Integers, Sequences, FiniteSets, Bags, TLC

(***************************************************************************)
(* Bounds of the model.                                                    *)
(***************************************************************************)
MaxRecords == 2
MaxPending == 3
MaxRows == 3
MaxCalls == 3
MaxAlerts == 2

(***************************************************************************)
(* JavaScript values of the years column.                                  *)
(***************************************************************************)
Num(n) == [t |-> "number", v |-> n]
NaN == [t |-> "NaN", v |-> 0]
NullYears == [t |-> "null", v |-> 0]
StrYears == [t |-> "string", v |-> 0]

\* JS `x || 0` on the years column
OrZero(x) == IF x.t \in {"null", "NaN"} \/ (x.t = "number" /\ x.v = 0) THEN Num(0) ELSE x

\* a categorical column holding null
Null == "<null>"

(***************************************************************************)
(* Field catalog.                                                          *)
(***************************************************************************)
availableFields == <<"years_at_medtronic", "learning_style", "shaped_by", "peak_performance", "motivation">>

chordAvailableFields == <<"years_at_medtronic", "peak_performance", "learning_style", "motivation", "shaped_by">>

Fields == {availableFields[i] : i \in 1..Len(availableFields)}

YEARS_CATEGORIES == <<"0-5", "6-10", "11-15", "16-20", "20+">>

allCategories == [f \in Fields |->
    CASE f = "years_at_medtronic" -> <<"0-5", "6-10", "11-15", "16-20", "20+">>
      [] f = "learning_style" -> <<"visual", "auditory", "kinesthetic", "reading_writing">>
      [] f = "shaped_by" -> <<"mentor", "challenge", "failure", "success", "team", "other">>
      [] f = "peak_performance" -> <<"Extrovert, Morning", "Extrovert, Evening", "Introvert, Morning", "Introvert, Night", "Ambivert, Morning", "Ambivert, Night">>
      [] f = "motivation" -> <<"impact", "growth", "recognition", "autonomy", "purpose">>]

(***************************************************************************)
(* Sequence helpers.                                                       *)
(***************************************************************************)
Range(s) == {s[i] : i \in 1..Len(s)}

IndexOf(s, x) == IF x \in Range(s) THEN (CHOOSE i \in 1..Len(s) : s[i] = x /\ \A j \in 1..(i-1) : s[j] # x) - 1 ELSE -1

RECURSIVE Unique(_)
Unique(s) == IF s = <<>> THEN <<>>
             ELSE LET h == Unique(SubSeq(s, 1, Len(s) - 1))
                  IN IF s[Len(s)] \in Range(h) THEN h ELSE Append(h, s[Len(s)])

RECURSIVE SumSeq(_)
SumSeq(s) == IF s = <<>> THEN 0 ELSE s[1] + SumSeq(Tail(s))

\* the strings of the model in the order of JS's default sort (UTF-16 code units)
CodeUnitOrder == <<"", "0-5", "11-15", "16-20", "20+", "6-10", "<null>",
    "Ambivert, Morning", "Ambivert, Night", "Extrovert, Evening", "Extrovert, Morning",
    "Introvert, Morning", "Introvert, Night", "Unknown",
    "auditory", "autonomy", "challenge", "failure", "growth", "impact", "kinesthetic",
    "mentor", "motivation", "other", "purpose", "reading_writing", "recognition",
    "success", "team", "visual">>

\* the distinct elements of s in the order they have in `order`
SortByRank(s, order) == SelectSeq(order, LAMBDA x : x \in Range(s))

\* Array.prototype.sort() without comparator (the lists sorted hold no duplicates)
sort(s) == SortByRank(s, CodeUnitOrder)

\* sort((a, b) => YEARS_CATEGORIES.indexOf(a) - YEARS_CATEGORIES.indexOf(b))
sortYears(s) == SortByRank(s, YEARS_CATEGORIES)

(***************************************************************************)
(* Category Normalizer.                                                    *)
(***************************************************************************)
getValidYearsCategory_offByOne(years) ==
    IF years.t # "number" \/ years.v < 0 THEN "0-5"
    ELSE IF years.v < 5 THEN "0-5"
    ELSE IF years.v < 10 THEN "6-10"
    ELSE IF years.v < 15 THEN "11-15"
    ELSE IF years.v < 20 THEN "16-20"
    ELSE "20+"

getValidYearsCategory(years) ==
    IF years.t \notin {"number", "NaN"} \/ years.t = "NaN" \/ years.v < 0 THEN "0-5"
    ELSE IF years.v <= 5 THEN "0-5"
    ELSE IF years.v <= 10 THEN "6-10"
    ELSE IF years.v <= 15 THEN "11-15"
    ELSE IF years.v <= 20 THEN "16-20"
    ELSE "20+"

\* shared/colorUtils getYearsCategory: the bucketing rule of the field catalog
getYearsCategory(years) ==
    IF years.t # "number" \/ years.v < 0 THEN "0-5"
    ELSE IF years.v <= 5 THEN "0-5"
    ELSE IF years.v <= 10 THEN "6-10"
    ELSE IF years.v <= 15 THEN "11-15"
    ELSE IF years.v <= 20 THEN "16-20"
    ELSE "20+"


(***************************************************************************)
(* State.                                                                  *)
(*   data, settings      what useVisualizationData and AppContext deliver  *)
(*   alluvial            AlluvialDiagram: its React state, animationRef    *)
(*                       and its pending setTimeout callbacks              *)
(*   chord               ChordDiagram: the same                            *)
(*   graph               what the render effects last built                *)
(*   years               argument and result of the years normalizer       *)
(*   admin               AdminPanel: its pending list and the moderation   *)
(*                       calls in flight                                   *)
(*   hist                history of the run (not program state)            *)
(***************************************************************************)
VARIABLES data, settings, alluvial, chord, graph, years, admin, hist

vars == <<data, settings, alluvial, chord, graph, years, admin, hist>>

(***************************************************************************)
(* Survey responses the model draws from.                                  *)
(***************************************************************************)
Response(y, ls, sb, pp, mo, td) ==
    [years_at_medtronic |-> y, learning_style |-> ls, shaped_by |-> sb,
     peak_performance |-> pp, motivation |-> mo, test_data |-> td]

Responses ==
    {Response(Num(2), "visual", "mentor", "Introvert, Night", "impact", FALSE),
     Response(Num(22), "auditory", "team", "Introvert, Night", "impact", TRUE),
     Response(NullYears, "visual", "mentor", "Introvert, Night", "impact", FALSE),
     Response(Num(2), Null, "mentor", "Introvert, Night", "impact", FALSE),
     Response(Num(22), "", "team", "Introvert, Night", "impact", TRUE),
     Response(Num(0), "kinesthetic", Null, "Introvert, Night", "impact", FALSE)}

ScenarioYears == <<2, 2, 7, 7, 7, 12, 22, 22, 22, 22>>

ScenarioStyles == <<"visual", "visual", "auditory", "auditory", "visual", "visual", "kinesthetic", "visual", "visual", "auditory">>

Scenario == [i \in 1..Len(ScenarioYears) |->
    Response(Num(ScenarioYears[i]), ScenarioStyles[i], "team", "Ambivert, Night", "growth", FALSE)]

(***************************************************************************)
(* Flow aggregation of AlluvialDiagram.                                    *)
(***************************************************************************)
filteredData(d, useTestData) ==
    IF Len(d) = 0 THEN <<>>
    ELSE IF useTestData THEN d ELSE SelectSeq(d, LAMBDA item : ~item.test_data)

\* d[f] of JS: a field name outside the catalog reads undefined
Get(d, f) == IF f \in Fields THEN d[f] ELSE Null

Column(fd, f) == [i \in 1..Len(fd) |-> Get(fd[i], f)]

IsNonEmptyString(v) == v \notin {Null, ""}

sources(fd, cs) ==
    IF Len(fd) = 0 THEN <<>>
    ELSE IF cs = "years_at_medtronic"
         THEN SelectSeq(YEARS_CATEGORIES, LAMBDA cat :
                  \E i \in 1..Len(fd) : getValidYearsCategory(OrZero(fd[i].years_at_medtronic)) = cat)
         ELSE SelectSeq(Unique(Column(fd, cs)), IsNonEmptyString)

targets(fd, ct) ==
    IF Len(fd) = 0 THEN <<>>
    ELSE IF ct = "years_at_medtronic"
         THEN SelectSeq(YEARS_CATEGORIES, LAMBDA cat :
                  \E i \in 1..Len(fd) : getValidYearsCategory(OrZero(fd[i].years_at_medtronic)) = cat)
         ELSE sort(SelectSeq(Unique(Column(fd, ct)), IsNonEmptyString))

sortedSources(fd, cs) ==
    IF cs = "years_at_medtronic" THEN sortYears(sources(fd, cs)) ELSE sort(sources(fd, cs))

sortedTargets(fd, ct) ==
    IF ct = "years_at_medtronic" THEN sortYears(targets(fd, ct)) ELSE sort(targets(fd, ct))

sourceAccessor_noBucket(d, cs) == IF cs = "years_at_medtronic" THEN "" ELSE Get(d, cs)

sourceAccessor(d, cs) ==
    IF cs = "years_at_medtronic" THEN getYearsCategory(OrZero(d.years_at_medtronic)) ELSE Get(d, cs)

targetAccessor(d, ct) ==
    IF ct = "years_at_medtronic" THEN getYearsCategory(OrZero(d.years_at_medtronic)) ELSE Get(d, ct)

validData(fd, cs, ct) ==
    SelectSeq(fd, LAMBDA d :
        /\ (cs # "years_at_medtronic" \/ d.years_at_medtronic # NullYears)
        /\ (ct # "years_at_medtronic" \/ d.years_at_medtronic # NullYears))

\* link values are kept in units of 1/ValueScale, so a dummy link's 0.0001 is 1
ValueScale == 10000

DummyValue == 1

linksMap_dropDummies(fd, cs, ct) ==
    LET S == sortedSources(fd, cs)
        T == sortedTargets(fd, ct)
        V == validData(fd, cs, ct)
        n(s, t) == Cardinality({i \in 1..Len(V) : sourceAccessor(V[i], cs) = s /\ targetAccessor(V[i], ct) = t})
    IN [k \in {p \in Range(S) \X Range(T) : n(p[1], p[2]) > 0} |->
           [value |-> n(k[1], k[2]) * ValueScale, isDummy |-> FALSE]]

linksMap(fd, cs, ct) ==
    LET S == sortedSources(fd, cs)
        T == sortedTargets(fd, ct)
        V == validData(fd, cs, ct)
        n(s, t) == Cardinality({i \in 1..Len(V) : sourceAccessor(V[i], cs) = s /\ targetAccessor(V[i], ct) = t})
    IN [k \in Range(S) \X Range(T) |->
           IF n(k[1], k[2]) = 0 THEN [value |-> DummyValue, isDummy |-> TRUE]
           ELSE [value |-> n(k[1], k[2]) * ValueScale, isDummy |-> FALSE]]

\* what the render effect of AlluvialDiagram builds for d3-sankey
AlluvialGraph(d, useTestData, cs, ct) ==
    LET fd == filteredData(d, useTestData)
    IN IF Len(fd) = 0 THEN [rendered |-> FALSE, sources |-> <<>>, targets |-> <<>>, links |-> <<>>]
       ELSE [rendered |-> TRUE, sources |-> sortedSources(fd, cs), targets |-> sortedTargets(fd, ct),
             links |-> linksMap(fd, cs, ct)]

(***************************************************************************)
(* JavaScript numbers: IEEE 754 binary64 with round-to-nearest-even, for   *)
(* zero and the values from 2^-14 up.  A number is written as the natural  *)
(* it is in units of 2^-FracBits, in limbs of LimbBits bits, the least     *)
(* significant limb first and without leading zero limbs.                  *)
(***************************************************************************)
Precision == 53

FracBits == 66

LimbBits == 26

RECURSIVE Exp2(_)
Exp2(k) == IF k = 0 THEN 1 ELSE 2 * Exp2(k - 1)

Base == Exp2(LimbBits)

Limb(n, j) == IF j + 1 <= Len(n) THEN n[j + 1] ELSE 0

Bit(n, i) == (Limb(n, i \div LimbBits) \div Exp2(i % LimbBits)) % 2

RECURSIVE Canonical(_)
Canonical(n) ==
    IF n # <<>> /\ n[Len(n)] = 0 THEN Canonical(SubSeq(n, 1, Len(n) - 1)) ELSE n

RECURSIVE AddFrom(_, _, _, _)
AddFrom(a, b, j, carry) ==
    IF j >= Len(a) /\ j >= Len(b) THEN (IF carry = 0 THEN <<>> ELSE <<carry>>)
    ELSE LET s == Limb(a, j) + Limb(b, j) + carry
         IN <<s % Base>> \o AddFrom(a, b, j + 1, s \div Base)

BigAdd(a, b) == AddFrom(a, b, 0, 0)

RECURSIVE SubFrom(_, _, _, _)
SubFrom(a, b, j, borrow) ==
    IF j >= Len(a) THEN <<>>
    ELSE LET s == Limb(a, j) - Limb(b, j) - borrow
         IN <<IF s < 0 THEN s + Base ELSE s>> \o SubFrom(a, b, j + 1, IF s < 0 THEN 1 ELSE 0)

\* a - b for a >= b
BigSub(a, b) == Canonical(SubFrom(a, b, 0, 0))

RECURSIVE LessFrom(_, _, _)
LessFrom(a, b, j) ==
    IF j = 0 THEN FALSE
    ELSE IF a[j] # b[j] THEN a[j] < b[j]
    ELSE LessFrom(a, b, j - 1)

BigLess(a, b) == IF Len(a) # Len(b) THEN Len(a) < Len(b) ELSE LessFrom(a, b, Len(a))

RECURSIVE SmallBitLen(_)
SmallBitLen(x) == IF x = 0 THEN 0 ELSE 1 + SmallBitLen(x \div 2)

BitLen(n) == IF n = <<>> THEN 0 ELSE (Len(n) - 1) * LimbBits + SmallBitLen(n[Len(n)])

Pow2(k) == [j \in 1..(k \div LimbBits) |-> 0] \o <<Exp2(k % LimbBits)>>

\* n * 2^k
ShiftLeft(n, k) ==
    LET s == k % LimbBits
        m == Exp2(LimbBits - s)
    IN IF n = <<>> THEN <<>>
       ELSE [j \in 1..(k \div LimbBits) |-> 0]
            \o Canonical([j \in 1..(Len(n) + 1) |->
                   (Limb(n, j - 1) % m) * Exp2(s) + (IF j = 1 THEN 0 ELSE Limb(n, j - 2) \div m)])

\* floor(n / 2^k)
ShiftRight(n, k) ==
    LET q == k \div LimbBits
        s == k % LimbBits
        m == Exp2(s)
    IN IF Len(n) <= q THEN <<>>
       ELSE Canonical([j \in 1..(Len(n) - q) |->
                (Limb(n, q + j - 1) \div m) + (Limb(n, q + j) % m) * Exp2(LimbBits - s)])

\* n mod 2^k
LowBits(n, k) == BigSub(n, ShiftLeft(ShiftRight(n, k), k))

\* a times the bits of the limb d from bit p upward
RECURSIVE MulSmall(_, _, _)
MulSmall(a, d, p) ==
    IF Exp2(p) > d THEN <<>>
    ELSE LET rest == MulSmall(a, d, p + 1)
             bit == (d \div Exp2(p)) % 2
         IN IF rest = <<>> THEN (IF bit = 1 THEN a ELSE <<>>)
            ELSE IF bit = 1 THEN BigAdd(BigAdd(rest, rest), a)
            ELSE BigAdd(rest, rest)

\* a times the limbs of b from limb j upward
RECURSIVE MulFrom(_, _, _)
MulFrom(a, b, j) ==
    IF j >= Len(b) THEN <<>>
    ELSE LET above == MulFrom(a, b, j + 1)
         IN IF above = <<>> THEN MulSmall(a, Limb(b, j), 0)
            ELSE BigAdd(ShiftLeft(above, LimbBits), MulSmall(a, Limb(b, j), 0))

BigMul(a, b) == MulFrom(a, b, 0)

\* one step of the long division by y: the next bit of the dividend
DivStep(above, bit, y) ==
    LET r == IF bit = 1 THEN BigAdd(BigAdd(above.rem, above.rem), <<1>>)
             ELSE BigAdd(above.rem, above.rem)
        q == BigAdd(above.quot, above.quot)
    IN IF BigLess(r, y) THEN [quot |-> q, rem |-> r]
       ELSE [quot |-> BigAdd(q, <<1>>), rem |-> BigSub(r, y)]

\* the long division continued by the bits of the limb d from bit p upward
RECURSIVE DivBits(_, _, _, _)
DivBits(above, d, y, p) ==
    IF p = LimbBits THEN above
    ELSE LET before == DivBits(above, d, y, p + 1)
             bit == (d \div Exp2(p)) % 2
         IN IF before.rem = <<>> /\ bit = 0
            THEN [quot |-> BigAdd(before.quot, before.quot), rem |-> <<>>]
            ELSE DivStep(before, bit, y)

\* quotient and remainder by y of the limbs of x from limb j upward
RECURSIVE DivFrom(_, _, _)
DivFrom(x, y, j) ==
    IF j >= Len(x) THEN [quot |-> <<>>, rem |-> <<>>]
    ELSE LET above == DivFrom(x, y, j + 1)
         IN IF above.rem = <<>> /\ Limb(x, j) = 0
            THEN [quot |-> ShiftLeft(above.quot, LimbBits), rem |-> <<>>]
            ELSE DivBits(above, Limb(x, j), y, 0)

BigDiv(x, y) == DivFrom(x, y, 0)

\* round-to-nearest, ties to even, of n (and of something above n when
\* inexact) to Precision significant bits
RoundToPrecision(n, inexact) ==
    LET r == BitLen(n) - Precision
        low == LowBits(n, r)
        half == Pow2(r - 1)
        kept == BigSub(n, low)
        up == \/ BigLess(half, low)
              \/ low = half /\ (inexact \/ Bit(n, r) = 1)
    IN IF r <= 0 THEN n
       ELSE IF up THEN BigAdd(kept, Pow2(r)) ELSE kept

\* the number n for a small natural n
Float(n) == ShiftLeft(Canonical(<<n>>), FracBits)

\* x + y
fadd(x, y) == RoundToPrecision(BigAdd(x, y), FALSE)

\* x * y
fmul(x, y) == ShiftRight(RoundToPrecision(BigMul(x, y), FALSE), FracBits)

\* x / y, with two more bits than the unit so that the quotient rounds once
fdiv(x, y) ==
    LET d == BigDiv(ShiftLeft(x, FracBits + 2), y)
    IN ShiftRight(RoundToPrecision(d.quot, d.rem # <<>>), 2)

(***************************************************************************)
(* Column height normalization of the AlluvialDiagram variant that holds   *)
(* it: the links after "Scale links", and the totals of the two sides      *)
(* before and after.                                                       *)
(***************************************************************************)
\* the literal 0.0001: the binary64 number nearest to 1/10000
DummyNumber == fdiv(Float(1), Float(ValueScale))

\* link.value as the Number the code holds
LinkNumber(l) == IF l.isDummy THEN DummyNumber ELSE Float(l.value \div ValueScale)

\* reduce((sum, v) => sum + v, 0) over the numbers of s, left to right
RECURSIVE NumberSum(_)
NumberSum(s) ==
    IF s = <<>> THEN <<>>
    ELSE IF Len(s) = 1 THEN s[1]
    ELSE fadd(NumberSum(SubSeq(s, 1, Len(s) - 1)), s[Len(s)])

\* leftTotals: per source the sum of its links, in the order of linksMap
leftLinkTotals(S, T, value) == [i \in 1..Len(S) |-> NumberSum([j \in 1..Len(T) |-> value[<<S[i], T[j]>>]])]

\* rightTotals: per target the sum of its links, in the order of linksMap
rightLinkTotals(S, T, value) == [j \in 1..Len(T) |-> NumberSum([i \in 1..Len(S) |-> value[<<S[i], T[j]>>]])]

\* a > b of two Numbers
NumberGreater(a, b) == BigLess(b, a)

leftScale(leftSum, rightSum) ==
    IF leftSum # <<>> /\ rightSum # <<>> /\ leftSum # rightSum /\ ~NumberGreater(leftSum, rightSum)
    THEN fdiv(rightSum, leftSum) ELSE Float(1)

rightScale(leftSum, rightSum) ==
    IF leftSum # <<>> /\ rightSum # <<>> /\ leftSum # rightSum /\ NumberGreater(leftSum, rightSum)
    THEN fdiv(leftSum, rightSum) ELSE Float(1)

\* "Scale links": every link is looked up on both sides
scaleLinks(S, T, value, ls, rs) ==
    [k \in DOMAIN value |->
        LET bySource == IF ls # Float(1) /\ k[1] \in Range(S) THEN fmul(value[k], ls) ELSE value[k]
        IN IF rs # Float(1) /\ k[2] \in Range(T) THEN fmul(bySource, rs) ELSE bySource]

ColumnHeightNormalization(fd, cs, ct) ==
    LET S == sortedSources(fd, cs)
        T == sortedTargets(fd, ct)
        L == linksMap(fd, cs, ct)
        value == [k \in DOMAIN L |-> LinkNumber(L[k])]
        leftTotals == leftLinkTotals(S, T, value)
        rightTotals == rightLinkTotals(S, T, value)
        leftSum == NumberSum(leftTotals)
        rightSum == NumberSum(rightTotals)
        ls == leftScale(leftSum, rightSum)
        rs == rightScale(leftSum, rightSum)
        scaled == scaleLinks(S, T, value, ls, rs)
    IN [leftTotals |-> leftTotals, rightTotals |-> rightTotals,
        leftSum |-> leftSum, rightSum |-> rightSum,
        leftScale |-> ls, rightScale |-> rs, links |-> scaled,
        leftTotalsAfter |-> leftLinkTotals(S, T, scaled),
        rightTotalsAfter |-> rightLinkTotals(S, T, scaled)]

\* what the render effect of the variant builds for d3-sankey
VariantGraph(d, useTestData, cs, ct) ==
    LET fd == filteredData(d, useTestData)
    IN IF Len(fd) = 0 THEN [rendered |-> FALSE, sources |-> <<>>, targets |-> <<>>, links |-> <<>>]
       ELSE [rendered |-> TRUE, sources |-> sortedSources(fd, cs), targets |-> sortedTargets(fd, ct),
             links |-> linksMap(fd, cs, ct), normalization |-> ColumnHeightNormalization(fd, cs, ct)]

(***************************************************************************)
(* Flow aggregation of ChordDiagram.                                       *)
(***************************************************************************)
YEARS_GROUPS == <<"0-5", "6-10", "11-15", "16-20", "20+">>

\* .filter(Boolean) on a categorical column
Truthy(v) == v \notin {Null, ""}

leftValues(fd, cs) ==
    IF cs = "years_at_medtronic" THEN YEARS_GROUPS
    ELSE SelectSeq(Unique(Column(fd, cs)), Truthy)

rightValues(fd, ct) ==
    IF ct = "years_at_medtronic" THEN YEARS_GROUPS
    ELSE SelectSeq(Unique(Column(fd, ct)), Truthy)

\* the value a record is compared by in leftTotals, connectionMatrix and the arcs
chordValue(d, f) ==
    IF f = "years_at_medtronic" THEN getYearsCategory(OrZero(d.years_at_medtronic)) ELSE Get(d, f)

\* the value a record adds to sourceCategories / targetCategories
chordCategory(d, f) ==
    IF f = "years_at_medtronic" THEN getYearsCategory(OrZero(d.years_at_medtronic))
    ELSE IF Truthy(Get(d, f)) THEN Get(d, f) ELSE "Unknown"

sourceArray(fd, cs) == sort([i \in 1..Len(fd) |-> chordCategory(fd[i], cs)])

targetArray(fd, ct) == sort([i \in 1..Len(fd) |-> chordCategory(fd[i], ct)])

leftTotals(fd, cs) ==
    LET A == sourceArray(fd, cs)
    IN [i \in 1..Len(A) |-> Cardinality({r \in 1..Len(fd) : chordValue(fd[r], cs) = A[i]})]

rightTotals(fd, ct) ==
    LET A == targetArray(fd, ct)
    IN [j \in 1..Len(A) |-> Cardinality({r \in 1..Len(fd) : chordValue(fd[r], ct) = A[j]})]

connectionMatrix(fd, cs, ct) ==
    LET A == sourceArray(fd, cs)
        B == targetArray(fd, ct)
    IN [i \in 1..Len(A) |-> [j \in 1..Len(B) |->
           Cardinality({r \in 1..Len(fd) : chordValue(fd[r], cs) = A[i] /\ chordValue(fd[r], ct) = B[j]})]]

\* angles are counted in hundredths of Math.PI
PiUnits == 100

\* arcGap = Math.PI * 0.12
arcGap == 12

\* minArcSpacing = Math.PI * 0.02
minArcSpacing == 2

\* leftArcSpan = leftEnd - leftStart, rightArcSpan = rightEnd - rightStart
sideArcSpan == PiUnits - 2 * arcGap

leftTotalSum(fd, cs) == SumSeq(leftTotals(fd, cs))

rightTotalSum(fd, ct) == SumSeq(rightTotals(fd, ct))

\* the arcSpan of an arc as the fraction num / den: every arc of the years
\* field gets the same share, an arc of another field the share of its count
arcSpan_proportionalOnly(field, n, count, totalSum) ==
    LET availableSpan == sideArcSpan - minArcSpacing * (n - 1)
        total == IF totalSum = 0 THEN 1 ELSE totalSum
    IN IF availableSpan * count < minArcSpacing * total
       THEN [num |-> minArcSpacing, den |-> 1]
       ELSE [num |-> availableSpan * count, den |-> total]

arcSpan(field, n, count, totalSum) ==
    LET availableSpan == sideArcSpan - minArcSpacing * (n - 1)
        total == IF totalSum = 0 THEN 1 ELSE totalSum
    IN IF field = "years_at_medtronic"
       THEN [num |-> availableSpan, den |-> n]
       ELSE IF availableSpan * count < minArcSpacing * total
       THEN [num |-> minArcSpacing, den |-> 1]
       ELSE [num |-> availableSpan * count, den |-> total]

leftArcs(fd, cs) ==
    LET L == leftValues(fd, cs)
    IN [i \in 1..Len(L) |->
           LET count == Cardinality({r \in 1..Len(fd) : chordValue(fd[r], cs) = L[i]})
           IN [name |-> L[i], value |-> count, span |-> arcSpan(cs, Len(L), count, leftTotalSum(fd, cs))]]

rightArcs(fd, ct) ==
    LET R == rightValues(fd, ct)
    IN [j \in 1..Len(R) |->
           LET count == Cardinality({r \in 1..Len(fd) : chordValue(fd[r], ct) = R[j]})
           IN [name |-> R[j], value |-> count, span |-> arcSpan(ct, Len(R), count, rightTotalSum(fd, ct))]]

\* what the render effect of ChordDiagram builds
ChordGraph(d, useTestData, cs, ct) ==
    IF Len(d) = 0
    THEN [rendered |-> FALSE, leftArcs |-> <<>>, rightArcs |-> <<>>, sourceArray |-> <<>>,
          targetArray |-> <<>>, connectionMatrix |-> <<>>]
    ELSE LET fd == IF useTestData THEN d ELSE SelectSeq(d, LAMBDA item : ~item.test_data)
         IN [rendered |-> TRUE, leftArcs |-> leftArcs(fd, cs), rightArcs |-> rightArcs(fd, ct),
             sourceArray |-> sourceArray(fd, cs), targetArray |-> targetArray(fd, ct),
             connectionMatrix |-> connectionMatrix(fd, cs, ct)]

ensureDifferentCategories(source, target) ==
    IF source = target
    THEN LET differentOption == SelectSeq(chordAvailableFields, LAMBDA f : f # source)
         IN [source |-> source, target |-> IF differentOption # <<>> THEN differentOption[1] ELSE "learning_style"]
    ELSE [source |-> source, target |-> target]

(***************************************************************************)
(* Settings and history.                                                   *)
(***************************************************************************)
\* useState(null) of an index
NoIndex == -1

\* animationRef.timer === null
NoTimer == [kind |-> "none"]

\* the value JS reads past the end of an array
Undefined == "undefined"

SettingsInit == [isAutoPlayEnabled |-> TRUE, autoPlaySpeed |-> 5000, useTestData |-> TRUE]

\* AdminPanel before fetchResponses has answered; moderated is history: the
\* responses a moderation call has succeeded for
AdminInit == [loading |-> TRUE, responses |-> <<>>, calls |-> {}, alerts |-> 0, moderated |-> {}]

YearsInit == [called |-> FALSE, arg |-> Num(0), category |-> ""]

\* last: the last event; stops: how often a sequencer was stopped so far;
\* events: how many user and environment events happened so far;
\* ticks: how often the mode-cycling interval of ChordDiagram fired so far
HistInit == [last |-> "init", stops |-> 0, events |-> 0, ticks |-> 0]

Max(a, b) == IF a >= b THEN a ELSE b

(***************************************************************************)
(* Highlight sequencer of AlluvialDiagram.                                 *)
(*                                                                         *)
(* animationRef.timer holds the one timer the component can still cancel;  *)
(* timers holds every other pending setTimeout callback: those whose id    *)
(* was never stored and those whose id was overwritten. A timer carries    *)
(* what its callback closes over (n = sortedSources.length, hasData =      *)
(* filteredData.length > 0, speed, the source field of targetOptions), its *)
(* delay, the time left until it expires (due) and, as history, the number *)
(* of stops that preceded its scheduling.                                  *)
(* Time passes only when a timer expires: the timer with the least time    *)
(* left expires first, and the others come that much closer to expiry.     *)
(* User and environment events happen at the instant that has been reached.*)
(* walk and interrupted are history as well: walk is the index animate has *)
(* to highlight next for the walk 0, 1, 2, ... since the last start on the *)
(* shown field pair to be in order (OutOfOrder once it was not; showing    *)
(* the highlighted index once more leaves the walk in order),              *)
(* interrupted tells whether a hover happened since then, and walked how   *)
(* the walk on the field pair shown before went.                           *)
(***************************************************************************)
OutOfOrder == -1

animationRefInit ==
    [timer |-> NoTimer, running |-> FALSE, currentSourceIndex |-> 0, currentTargetIndex |-> 0,
     isPaused |-> FALSE, cycleCount |-> 0]

AlluvialInit ==
    [mounted |-> FALSE,
     currentSource |-> "years_at_medtronic", currentTarget |-> "learning_style",
     animationRef |-> animationRefInit,
     timers |-> EmptyBag,
     animate |-> [n |-> 0, hasData |-> FALSE, dataLength |-> 0, speed |-> 0],
     effect |-> [deps |-> <<>>, cleanup |-> FALSE],
     hoveredSourceIndex |-> NoIndex, hoveredTargetIndex |-> NoIndex,
     animationPhase |-> "full", isInFullOpacityState |-> FALSE,
     hover |-> FALSE,
     walk |-> 0, interrupted |-> FALSE, walked |-> "none"]

CycleLimit == 1000

ResumeDelay == 100

animationDurations(speed) ==
    LET baseSpeed == IF speed = 0 THEN 3000 ELSE speed
    IN [stepDuration |-> Max(800, baseSpeed \div 8),
        pauseDuration |-> Max(400, baseSpeed \div 12),
        categoryPauseDuration |-> Max(1500, baseSpeed \div 3)]

Timer(kind, delay, cl, source, stops) ==
    [kind |-> kind, delay |-> delay, due |-> delay, n |-> cl.n, hasData |-> cl.hasData,
     speed |-> cl.speed, source |-> source, stops |-> stops]

\* the pending timers of a component: the cancellable one and the others
PendingTimers(a) ==
    {[timer |-> t, tracked |-> FALSE] : t \in BagToSet(a.timers)}
        \cup (IF a.animationRef.timer = NoTimer THEN {}
              ELSE {[timer |-> a.animationRef.timer, tracked |-> TRUE]})

PendingCount(a) == BagCardinality(a.timers) + (IF a.animationRef.timer = NoTimer THEN 0 ELSE 1)

\* no pending timer expires before p
IsNext(a, p) == \A q \in PendingTimers(a) : p.timer.due <= q.timer.due

Later(t, dt) == IF t = NoTimer THEN t ELSE [t EXCEPT !.due = @ - dt]

\* the component dt later: every pending timer is that much closer to expiry
Elapsed(a, dt) ==
    [a EXCEPT !.animationRef.timer = Later(@, dt),
              !.timers = [t \in {Later(x, dt) : x \in BagToSet(a.timers)} |->
                             CopiesIn([t EXCEPT !.due = @ + dt], a.timers)]]

\* the component once the pending timer p has expired and left the timer queue
Expired(a, p) ==
    Elapsed(IF p.tracked THEN [a EXCEPT !.animationRef.timer = NoTimer]
            ELSE [a EXCEPT !.timers = @ (-) SetToBag({p.timer})],
            p.timer.due)

\* animationRef.timer = setTimeout(...) without clearTimeout: a pending timer
\* whose id is overwritten stays pending
Overwritten(a) ==
    IF a.animationRef.timer = NoTimer THEN a.timers ELSE a.timers (+) SetToBag({a.animationRef.timer})

\* animate() of the closure cl
animate(a, cl, stops) ==
    LET r == a.animationRef
    IN IF r.isPaused THEN a
       ELSE IF ~r.running \/ ~cl.hasData THEN a
       ELSE LET r1 == IF r.cycleCount > CycleLimit
                      THEN [r EXCEPT !.cycleCount = 0, !.currentSourceIndex = 0, !.currentTargetIndex = 0]
                      ELSE r
                r2 == [r1 EXCEPT !.cycleCount = @ + 1]
                targetOptions == SelectSeq(availableFields, LAMBDA f : f # a.currentSource)
                d == animationDurations(cl.speed)
                shown == [a EXCEPT !.animationPhase = "highlighting", !.isInFullOpacityState = FALSE,
                                   !.hoveredSourceIndex = r2.currentSourceIndex,
                                   !.walk = IF @ = r2.currentSourceIndex THEN @ + 1
                                            ELSE IF @ = r2.currentSourceIndex + 1 THEN @
                                            ELSE OutOfOrder]
            IN IF r2.currentSourceIndex < cl.n - 1
               THEN [shown EXCEPT
                        !.timers = Overwritten(a),
                        !.animationRef = [r2 EXCEPT !.timer =
                            Timer("step", d.stepDuration + d.pauseDuration, cl, a.currentSource, stops)]]
               ELSE IF r2.currentTargetIndex < Len(targetOptions) - 1
               THEN [shown EXCEPT
                        !.animationRef = [r2 EXCEPT !.timer =
                            Timer("nextTarget", d.categoryPauseDuration, cl, a.currentSource, stops)]]
               ELSE [shown EXCEPT
                        !.animationRef = [r2 EXCEPT !.timer =
                            Timer("nextSource", d.categoryPauseDuration, cl, a.currentSource, stops)]]

\* the cleanup function of the start/stop effect
Cleanup(a) ==
    [a EXCEPT !.animationRef.timer = NoTimer, !.animationRef.running = FALSE,
              !.animationPhase = "full", !.isInFullOpacityState = TRUE]

\* the dependency list of the start/stop effect (the autoPlay prop stays true)
EffectDeps(a, d, s) ==
    <<s.isAutoPlayEnabled, s.autoPlaySpeed, Len(filteredData(d, s.useTestData)), a.currentSource>>

\* one run of the start/stop effect: the cleanup of its last run, then its body
StartStopEffect(a, d, s, stops) ==
    LET a0 == IF a.effect.cleanup THEN Cleanup(a) ELSE a
        a1 == [a0 EXCEPT !.effect.deps = EffectDeps(a, d, s)]
    IN IF ~s.isAutoPlayEnabled
       THEN [a1 EXCEPT !.animationRef.timer = NoTimer, !.animationRef.running = FALSE,
                       !.animationPhase = "full", !.isInFullOpacityState = TRUE,
                       !.effect.cleanup = FALSE]
       ELSE IF Len(filteredData(d, s.useTestData)) = 0
       THEN [a1 EXCEPT !.effect.cleanup = FALSE]
       ELSE LET a2 == [a1 EXCEPT
                          !.animationRef.timer = IF a1.animationRef.running THEN NoTimer ELSE @,
                          !.animationRef.running = TRUE,
                          !.animationRef.currentSourceIndex = 0,
                          !.animationRef.currentTargetIndex = 0,
                          !.animationRef.cycleCount = 0,
                          !.effect.cleanup = TRUE,
                          !.walk = 0, !.interrupted = FALSE]
            IN animate(a2, a2.animate, stops)

\* React renders the component again after a state, data or settings change:
\* the animate callback is memoized anew when one of its dependencies changed,
\* the start/stop effect runs when one of its dependencies changed
AlluvialCommit(a, d, s, stops) ==
    IF ~a.mounted THEN a
    ELSE LET fd == filteredData(d, s.useTestData)
             n == Len(sources(fd, a.currentSource))
             memo == IF <<Len(d), n, s.autoPlaySpeed>> = <<a.animate.dataLength, a.animate.n, a.animate.speed>>
                     THEN a.animate
                     ELSE [n |-> n, hasData |-> Len(fd) > 0, dataLength |-> Len(d), speed |-> s.autoPlaySpeed]
             a1 == [a EXCEPT !.animate = memo]
         IN IF EffectDeps(a1, d, s) = a1.effect.deps THEN a1 ELSE StartStopEffect(a1, d, s, stops)

\* the component after its first render
AlluvialMounted(d, s) == AlluvialCommit([AlluvialInit EXCEPT !.mounted = TRUE], d, s, 0)

pauseAnimation(a) ==
    IF a.animationRef.running /\ ~a.animationRef.isPaused
    THEN [a EXCEPT !.animationRef.isPaused = TRUE, !.animationRef.timer = NoTimer]
    ELSE a

resumeAnimation(a, stops) ==
    IF a.animationRef.running /\ a.animationRef.isPaused
    THEN [a EXCEPT !.animationRef.isPaused = FALSE,
                   !.timers = @ (+) SetToBag({Timer("animate", ResumeDelay, a.animate, a.currentSource, stops)})]
    ELSE a

(***************************************************************************)
(* Highlight sequencer of ChordDiagram.                                    *)
(*                                                                         *)
(* animationRef.timer holds the pending setTimeout of the highlight walk,  *)
(* interval the setInterval of the mode cycling. A timer carries what its  *)
(* callback closes over: the field pair, the speed and the side lengths of *)
(* the render that created the callback. handlers is what the mouse        *)
(* handlers attached by the last run of the render effect close over.      *)
(* frozen, paused, resumedAt and first are history: the cursor and the     *)
(* highlight at the moment a hover paused the walk, the highlight the walk *)
(* was resumed at, and the first highlight shown since that resume.        *)
(***************************************************************************)
\* shared/chordUtils cyclingModes: the fixed rotation of the field pairs,
\* every source field of the catalog with every other field as target
ModesOf(i) ==
    LET s == chordAvailableFields[i]
        T == SelectSeq(chordAvailableFields, LAMBDA f : f # s)
    IN [j \in 1..Len(T) |-> [source |-> s, target |-> T[j]]]

cyclingModes == ModesOf(1) \o ModesOf(2) \o ModesOf(3) \o ModesOf(4) \o ModesOf(5)

\* a rotation list that holds degenerate pairs as well: every source field
\* with every field of the catalog as target, itself included
AllPairsOf(i) ==
    [j \in 1..Len(chordAvailableFields) |-> [source |-> chordAvailableFields[i], target |-> chordAvailableFields[j]]]

cyclingModes_withSelfPairs == AllPairsOf(1) \o AllPairsOf(2) \o AllPairsOf(3) \o AllPairsOf(4) \o AllPairsOf(5)

\* cyclingModes.findIndex(mode => mode.source === source && mode.target === target)
findModeIndex(modes, source, target) == IndexOf(modes, [source |-> source, target |-> target])

NoCursor == [index |-> NoIndex, side |-> "null", source |-> "", target |-> ""]

chordAnimationRefInit ==
    [timer |-> NoTimer, running |-> FALSE, currentIndex |-> 0, currentSide |-> "left",
     isPaused |-> FALSE, cycleCount |-> 0]

ChordInit ==
    [mounted |-> FALSE,
     modes |-> cyclingModes,
     currentSource |-> "years_at_medtronic", currentTarget |-> "learning_style",
     animationRef |-> chordAnimationRefInit,
     timers |-> EmptyBag,
     interval |-> NoTimer,
     currentModeIndexRef |-> 0,
     deps |-> [mode |-> <<>>, cycling |-> <<>>, highlight |-> <<>>, render |-> <<>>],
     cleanup |-> FALSE,
     handlers |-> [source |-> "", target |-> "", speed |-> 0, nLeft |-> 0, nRight |-> 0],
     highlightedArcIndex |-> NoIndex, highlightedSide |-> "null",
     animationPhase |-> "full",
     hover |-> "none",
     frozen |-> NoCursor, paused |-> NoCursor, resumedAt |-> NoCursor, first |-> NoCursor]

\* the cursor of the walk and the field pair it walks on
ChordCursor(c) ==
    [index |-> c.animationRef.currentIndex, side |-> c.animationRef.currentSide,
     source |-> c.currentSource, target |-> c.currentTarget]

\* the arc the diagram highlights
Highlighted(c) ==
    [index |-> c.highlightedArcIndex, side |-> c.highlightedSide,
     source |-> c.currentSource, target |-> c.currentTarget]

\* history: the first highlight shown since the last resume
Noted(c) ==
    IF c.resumedAt # NoCursor /\ c.first = NoCursor /\ c.highlightedArcIndex # NoIndex
    THEN [c EXCEPT !.first = Highlighted(c)]
    ELSE c

chordDurations(speed) ==
    LET stepDuration == Max(1500, (IF speed = 0 THEN 3000 ELSE speed) \div 3)
    IN [stepDuration |-> stepDuration, pauseDuration |-> Max(300, stepDuration \div 5)]

ChordTimer(kind, delay, cl, sideLength, stops) ==
    [kind |-> kind, delay |-> delay, due |-> delay, source |-> cl.source, target |-> cl.target,
     speed |-> cl.speed, nLeft |-> cl.nLeft, nRight |-> cl.nRight, sideLength |-> sideLength,
     stops |-> stops]

ChordClosure(t) ==
    [source |-> t.source, target |-> t.target, speed |-> t.speed, nLeft |-> t.nLeft, nRight |-> t.nRight]

\* what animate of the highlight effect closes over: the field pair and the
\* speed of the render the effect ran in, the side lengths from allCategories
AnimateClosure(c, s) ==
    [source |-> c.currentSource, target |-> c.currentTarget, speed |-> s.autoPlaySpeed,
     nLeft |-> Len(allCategories[c.currentSource]), nRight |-> Len(allCategories[c.currentTarget])]

\* what resumeAnimation closes over: the side lengths from the values the
\* eligible records show
HandlerClosure(c, d, s) ==
    LET fd == IF s.useTestData THEN d ELSE SelectSeq(d, LAMBDA item : ~item.test_data)
    IN [source |-> c.currentSource, target |-> c.currentTarget, speed |-> s.autoPlaySpeed,
        nLeft |-> Len(leftValues(fd, c.currentSource)), nRight |-> Len(rightValues(fd, c.currentTarget))]

\* the pending timers of ChordDiagram: those of the walk and the interval
ChordPendingTimers(c) ==
    PendingTimers(c) \cup (IF c.interval = NoTimer THEN {} ELSE {[timer |-> c.interval, tracked |-> FALSE]})

ChordIsNext(c, p) == \A q \in ChordPendingTimers(c) : p.timer.due <= q.timer.due

\* the component once the pending timer p of the walk has expired
ChordExpired(c, p) == [Expired(c, p) EXCEPT !.interval = Later(@, p.timer.due)]

\* animate() of the highlight effect, of the closure cl
chordAnimate(c, cl, stops) ==
    LET r == c.animationRef
    IN IF ~r.running \/ r.isPaused THEN c
       ELSE LET currentSideLength == IF r.currentSide = "left" THEN cl.nLeft ELSE cl.nRight
                index == IF r.currentIndex >= currentSideLength THEN 0 ELSE r.currentIndex
                d == chordDurations(cl.speed)
            IN [c EXCEPT
                   !.animationPhase = "highlighting",
                   !.highlightedArcIndex = index,
                   !.highlightedSide = r.currentSide,
                   !.timers = Overwritten(c),
                   !.animationRef = [r EXCEPT
                       !.currentIndex = index,
                       !.timer = ChordTimer(IF index < currentSideLength - 1 THEN "step" ELSE "sideEnd",
                                            d.stepDuration + d.pauseDuration, cl, currentSideLength, stops)]]

\* the cleanup function of the highlight effect
ChordCleanup(c) ==
    [c EXCEPT !.animationRef.timer = NoTimer, !.animationRef.running = FALSE,
              !.animationPhase = "full", !.highlightedArcIndex = NoIndex, !.highlightedSide = "null"]

\* the effect that keeps currentModeIndexRef at the shown field pair
ModeIndexEffect(c) ==
    LET modeIndex == findModeIndex(c.modes, c.currentSource, c.currentTarget)
    IN [c EXCEPT !.deps.mode = <<c.currentSource, c.currentTarget>>,
                 !.currentModeIndexRef = IF modeIndex # -1 THEN modeIndex ELSE @]

\* the auto-cycling effect: the cleanup of its last run, then its body
CyclingEffect(c, s, stops) ==
    LET period == IF s.autoPlaySpeed = 0 THEN 6000 ELSE s.autoPlaySpeed
    IN [c EXCEPT !.deps.cycling = <<s.isAutoPlayEnabled, s.autoPlaySpeed>>,
                 !.interval = IF ~s.isAutoPlayEnabled THEN NoTimer
                              ELSE [kind |-> "interval", delay |-> period, due |-> period, stops |-> stops]]

\* the highlight effect: the cleanup of its last run, then its body
HighlightEffect(c, d, s, stops) ==
    LET c0 == IF c.cleanup THEN ChordCleanup(c) ELSE c
        c1 == [c0 EXCEPT !.deps.highlight = <<s.isAutoPlayEnabled, Len(d), s.autoPlaySpeed, s.useTestData>>,
                         !.resumedAt = NoCursor, !.first = NoCursor]
    IN IF ~s.isAutoPlayEnabled \/ Len(d) = 0
       THEN [c1 EXCEPT !.animationPhase = "full", !.highlightedArcIndex = NoIndex, !.highlightedSide = "null",
                       !.animationRef.timer = NoTimer, !.animationRef.running = FALSE, !.cleanup = FALSE]
       ELSE IF ~c1.animationRef.running
       THEN chordAnimate([c1 EXCEPT !.animationRef.running = TRUE,
                                    !.animationRef.currentIndex = 0,
                                    !.animationRef.currentSide = "left",
                                    !.animationRef.isPaused = FALSE,
                                    !.cleanup = TRUE],
                         AnimateClosure(c1, s), stops)
       ELSE [c1 EXCEPT !.cleanup = TRUE]

\* the render effect: draws the diagram anew and attaches the mouse handlers
\* of this render (the drawing itself is ChordGraph)
ChordRenderEffect(c, d, s) ==
    IF Len(d) = 0 THEN [c EXCEPT !.deps.render = <<d, c.currentSource, c.currentTarget, s.useTestData>>]
    ELSE [c EXCEPT !.deps.render = <<d, c.currentSource, c.currentTarget, s.useTestData>>,
                   !.handlers = HandlerClosure(c, d, s)]

\* React renders the component again after a state, data or settings change
\* and runs the effects whose dependencies changed, in the order of the source
ChordCommit(c, d, s, stops) ==
    IF ~c.mounted THEN c
    ELSE LET c1 == IF c.deps.mode = <<c.currentSource, c.currentTarget>> THEN c ELSE ModeIndexEffect(c)
             c2 == IF c1.deps.cycling = <<s.isAutoPlayEnabled, s.autoPlaySpeed>> THEN c1
                   ELSE CyclingEffect(c1, s, stops)
             c3 == IF c2.deps.highlight = <<s.isAutoPlayEnabled, Len(d), s.autoPlaySpeed, s.useTestData>> THEN c2
                   ELSE HighlightEffect(c2, d, s, stops)
         IN IF c3.deps.render = <<d, c3.currentSource, c3.currentTarget, s.useTestData>> THEN c3
            ELSE ChordRenderEffect(c3, d, s)

\* the component after its first render
ChordMounted(d, s) == ChordCommit([ChordInit EXCEPT !.mounted = TRUE], d, s, 0)

chordPauseAnimation(c) ==
    IF c.animationRef.running /\ ~c.animationRef.isPaused
    THEN [c EXCEPT !.animationRef.isPaused = TRUE, !.animationRef.timer = NoTimer,
                   !.frozen = ChordCursor(c), !.paused = Highlighted(c),
                   !.resumedAt = NoCursor, !.first = NoCursor]
    ELSE c

\* restartMainAnimation() of resumeAnimation, of the closure cl
restartMainAnimation(c, cl, stops) ==
    LET r == c.animationRef
    IN IF ~r.running \/ r.isPaused THEN c
       ELSE LET currentSideLength == IF r.currentSide = "left" THEN cl.nLeft ELSE cl.nRight
            IN [c EXCEPT
                   !.animationPhase = "highlighting",
                   !.highlightedArcIndex = r.currentIndex,
                   !.highlightedSide = r.currentSide,
                   !.timers = Overwritten(c),
                   !.animationRef.timer = ChordTimer("resume", chordDurations(cl.speed).stepDuration,
                                                     cl, currentSideLength, stops)]

chordResumeAnimation(c, stops) ==
    IF c.animationRef.running /\ c.animationRef.isPaused
    THEN restartMainAnimation([c EXCEPT !.animationRef.isPaused = FALSE, !.resumedAt = c.paused],
                              c.handlers, stops)
    ELSE c

(***************************************************************************)
(* Events common to the specifications.                                    *)
(***************************************************************************)
Render(diagram, d, useTestData, a, c) ==
    [diagram |-> diagram,
     alluvial |-> IF diagram = "alluvial" THEN AlluvialGraph(d, useTestData, a.currentSource, a.currentTarget)
                  ELSE AlluvialGraph(<<>>, TRUE, a.currentSource, a.currentTarget),
     chord |-> IF diagram = "chord" THEN ChordGraph(d, useTestData, c.currentSource, c.currentTarget)
               ELSE ChordGraph(<<>>, TRUE, c.currentSource, c.currentTarget)]

\* the page shows one diagram, no response is loaded yet
Mounted(diagram, s) ==
    /\ data = <<>>
    /\ settings = s
    /\ alluvial = IF diagram = "alluvial" THEN AlluvialMounted(<<>>, s) ELSE AlluvialInit
    /\ chord = IF diagram = "chord" THEN ChordMounted(<<>>, s) ELSE ChordInit
    /\ graph = Render(diagram, <<>>, s.useTestData, alluvial, chord)
    /\ years = YearsInit
    /\ admin = AdminInit
    /\ hist = HistInit

\* data or settings changed: the components a and c render again
Rerender(a, c, d, s, h) ==
    /\ alluvial' = AlluvialCommit(a, d, s, h.stops)
    /\ chord' = ChordCommit(c, d, s, h.stops)
    /\ graph' = Render(graph.diagram, d, s.useTestData, alluvial', chord')

\* useVisualizationData delivers one more response
ReceiveResponse(r) ==
    /\ Len(data) < MaxRecords
    /\ data' = Append(data, r)
    /\ hist' = [hist EXCEPT !.last = "data"]
    /\ Rerender(alluvial, chord, data', settings, hist')
    /\ UNCHANGED <<settings, years, admin>>

\* useVisualizationData delivers the ten responses of the end-to-end scenario
ReceiveScenario ==
    /\ data = <<>>
    /\ data' = Scenario
    /\ hist' = [hist EXCEPT !.last = "data"]
    /\ Rerender(alluvial, chord, data', settings, hist')
    /\ UNCHANGED <<settings, years, admin>>

(***************************************************************************)
(* SpecAggregate: the render effects of the two diagrams applied to every  *)
(* small record list, field pair and test-data setting (autoplay is off,   *)
(* the sequencers stay idle).                                              *)
(***************************************************************************)
InitAggregate ==
    \E diagram \in {"alluvial", "chord"}, b \in BOOLEAN :
        Mounted(diagram, [SettingsInit EXCEPT !.isAutoPlayEnabled = FALSE, !.useTestData = b])

\* the field pair the Alluvial rotation shows next (animate's setCurrentTarget / setCurrentSource)
NextRotationPair(cs, ct) ==
    LET targetOptions == SelectSeq(availableFields, LAMBDA f : f # cs)
        ti == IndexOf(targetOptions, ct)
        nextSource == availableFields[((IndexOf(availableFields, cs) + 1) % Len(availableFields)) + 1]
    IN IF ti < Len(targetOptions) - 1
       THEN [source |-> cs, target |-> targetOptions[ti + 2]]
       ELSE [source |-> nextSource, target |-> SelectSeq(availableFields, LAMBDA f : f # nextSource)[1]]

AlluvialShowNextPair ==
    /\ alluvial.mounted
    /\ LET p == NextRotationPair(alluvial.currentSource, alluvial.currentTarget)
       IN alluvial' = AlluvialCommit([alluvial EXCEPT !.currentSource = p.source, !.currentTarget = p.target],
                                     data, settings, hist.stops)
    /\ graph' = Render(graph.diagram, data, settings.useTestData, alluvial', chord)
    /\ hist' = [hist EXCEPT !.last = "pair"]
    /\ UNCHANGED <<data, settings, chord, years, admin>>

\* QuestionSelector onChange of ChordDiagram
ChordSelect(source, target) ==
    /\ chord.mounted
    /\ LET corrected == ensureDifferentCategories(source, target)
       IN chord' = ChordCommit([chord EXCEPT !.currentSource = corrected.source, !.currentTarget = corrected.target],
                               data, settings, hist.stops)
    /\ graph' = Render(graph.diagram, data, settings.useTestData, alluvial, chord')
    /\ hist' = [hist EXCEPT !.last = "pair"]
    /\ UNCHANGED <<data, settings, alluvial, years, admin>>

NextAggregate ==
    \/ \E r \in Responses : ReceiveResponse(r)
    \/ ReceiveScenario
    \/ AlluvialShowNextPair
    \/ \E s \in Fields, t \in Fields : ChordSelect(s, t)

SpecAggregate == InitAggregate /\ [][NextAggregate]_vars

(***************************************************************************)
(* SpecSelect: SpecAggregate together with the two category drop-downs of  *)
(* the Alluvial diagram (the variant of the component that renders them).  *)
(***************************************************************************)
\* onChange of the source drop-down: setCurrentSource(e.target.value)
SelectSourceChange(f) ==
    /\ alluvial.mounted
    /\ alluvial' = AlluvialCommit([alluvial EXCEPT !.currentSource = f], data, settings, hist.stops)
    /\ graph' = Render(graph.diagram, data, settings.useTestData, alluvial', chord)
    /\ hist' = [hist EXCEPT !.last = "select"]
    /\ UNCHANGED <<data, settings, chord, years, admin>>

\* onChange of the target drop-down: setCurrentTarget(e.target.value)
SelectTargetChange(f) ==
    /\ alluvial.mounted
    /\ alluvial' = AlluvialCommit([alluvial EXCEPT !.currentTarget = f], data, settings, hist.stops)
    /\ graph' = Render(graph.diagram, data, settings.useTestData, alluvial', chord)
    /\ hist' = [hist EXCEPT !.last = "select"]
    /\ UNCHANGED <<data, settings, chord, years, admin>>

NextSelect ==
    \/ NextAggregate
    \/ \E f \in Fields : SelectSourceChange(f)
    \/ \E f \in Fields : SelectTargetChange(f)

SpecSelect == InitAggregate /\ [][NextSelect]_vars

(***************************************************************************)
(* SpecNormalize: the render effect of the AlluvialDiagram variant with    *)
(* the column height normalization, over small record lists and the field  *)
(* pairs its drop-downs select.                                            *)
(***************************************************************************)
MaxVariantRecords == 3

VariantResponses ==
    {Response(Num(2), "auditory", "mentor", "Introvert, Night", "growth", FALSE),
     Response(Num(2), "auditory", "mentor", "Introvert, Night", "autonomy", FALSE),
     Response(Num(2), "visual", "mentor", "Introvert, Night", "autonomy", FALSE),
     Response(Num(2), "visual", "mentor", "Introvert, Night", "impact", FALSE)}

VariantRender(d, useTestData, a, c) ==
    [diagram |-> "alluvial",
     alluvial |-> VariantGraph(d, useTestData, a.currentSource, a.currentTarget),
     chord |-> ChordGraph(<<>>, TRUE, c.currentSource, c.currentTarget)]

InitNormalize == Mounted("alluvial", [SettingsInit EXCEPT !.isAutoPlayEnabled = FALSE])

\* useVisualizationData delivers one more response to the variant
VariantReceiveResponse(r) ==
    /\ Len(data) < MaxVariantRecords
    /\ data' = Append(data, r)
    /\ hist' = [hist EXCEPT !.last = "data"]
    /\ alluvial' = AlluvialCommit(alluvial, data', settings, hist.stops)
    /\ graph' = VariantRender(data', settings.useTestData, alluvial', chord)
    /\ UNCHANGED <<settings, chord, years, admin>>

\* onChange of the source drop-down of the variant
VariantSelectSource(f) ==
    /\ alluvial' = AlluvialCommit([alluvial EXCEPT !.currentSource = f], data, settings, hist.stops)
    /\ graph' = VariantRender(data, settings.useTestData, alluvial', chord)
    /\ hist' = [hist EXCEPT !.last = "select"]
    /\ UNCHANGED <<data, settings, chord, years, admin>>

\* onChange of the target drop-down of the variant
VariantSelectTarget(f) ==
    /\ alluvial' = AlluvialCommit([alluvial EXCEPT !.currentTarget = f], data, settings, hist.stops)
    /\ graph' = VariantRender(data, settings.useTestData, alluvial', chord)
    /\ hist' = [hist EXCEPT !.last = "select"]
    /\ UNCHANGED <<data, settings, chord, years, admin>>

NextNormalize ==
    \/ \E r \in VariantResponses : VariantReceiveResponse(r)
    \/ VariantSelectSource("learning_style")
    \/ VariantSelectTarget("motivation")

SpecNormalize == InitNormalize /\ [][NextNormalize]_vars

(***************************************************************************)
(* SpecYears: the years normalizer applied to every kind of argument.      *)
(***************************************************************************)
MinYears == 5

MaxYears == 120

YearsArguments == {NaN, NullYears, StrYears} \cup {Num(n) : n \in (0 - MinYears)..MaxYears}

InitYears == Mounted("alluvial", [SettingsInit EXCEPT !.isAutoPlayEnabled = FALSE])

Normalize(y) ==
    /\ years' = [called |-> TRUE, arg |-> y, category |-> getValidYearsCategory(y)]
    /\ hist' = [hist EXCEPT !.last = "normalize"]
    /\ UNCHANGED <<data, settings, alluvial, chord, graph, admin>>

NextYears == \E y \in YearsArguments : Normalize(y)

SpecYears == InitYears /\ [][NextYears]_vars

(***************************************************************************)
(* Events common to the sequencer specifications.                          *)
(***************************************************************************)
MaxEvents == 2

MaxHoverIndex == 1

Speeds == {3000, 6000}

\* a response that arrives while the diagram shows the scenario
LateResponse == Response(Num(17), "reading_writing", "mentor", "Introvert, Night", "impact", FALSE)

\* useVisualizationData delivers one more response after those of the scenario
ReceiveLateResponse ==
    /\ data = Scenario
    /\ hist.events < MaxEvents
    /\ data' = Append(data, LateResponse)
    /\ hist' = [hist EXCEPT !.last = "data", !.events = @ + 1]
    /\ Rerender(alluvial, chord, data', settings, hist')
    /\ UNCHANGED <<settings, years, admin>>

\* the settings panel switches autoplay on or off
SetAutoPlayEnabled(b) ==
    /\ alluvial.mounted \/ chord.mounted
    /\ hist.events < MaxEvents
    /\ b # settings.isAutoPlayEnabled
    /\ settings' = [settings EXCEPT !.isAutoPlayEnabled = b]
    /\ hist' = [hist EXCEPT !.last = "autoplay", !.events = @ + 1, !.stops = IF b THEN @ ELSE @ + 1]
    /\ Rerender(alluvial, [chord EXCEPT !.frozen = NoCursor], data, settings', hist')
    /\ UNCHANGED <<data, years, admin>>

\* the settings panel changes the autoplay speed
SetAutoPlaySpeed(v) ==
    /\ alluvial.mounted \/ chord.mounted
    /\ hist.events < MaxEvents
    /\ v # settings.autoPlaySpeed
    /\ settings' = [settings EXCEPT !.autoPlaySpeed = v]
    /\ hist' = [hist EXCEPT !.last = "speed", !.events = @ + 1]
    /\ Rerender(alluvial, [chord EXCEPT !.frozen = NoCursor], data, settings', hist')
    /\ UNCHANGED <<data, years, admin>>

AlluvialUnmounted(a) ==
    IF ~a.mounted THEN a
    ELSE [(IF a.effect.cleanup THEN Cleanup(a) ELSE a) EXCEPT
             !.mounted = FALSE, !.hover = FALSE, !.effect.cleanup = FALSE]

ChordUnmounted(c) ==
    IF ~c.mounted THEN c
    ELSE [(IF c.cleanup THEN ChordCleanup(c) ELSE c) EXCEPT
             !.mounted = FALSE, !.hover = "none", !.cleanup = FALSE, !.interval = NoTimer,
             !.frozen = NoCursor, !.resumedAt = NoCursor, !.first = NoCursor]

\* the page leaves the diagram
Unmount ==
    /\ alluvial.mounted \/ chord.mounted
    /\ hist.events < MaxEvents
    /\ alluvial' = AlluvialUnmounted(alluvial)
    /\ chord' = ChordUnmounted(chord)
    /\ graph' = Render("none", data, settings.useTestData, alluvial', chord')
    /\ hist' = [hist EXCEPT !.last = "unmount", !.events = @ + 1, !.stops = @ + 1]
    /\ UNCHANGED <<data, settings, years, admin>>

(***************************************************************************)
(* SpecAlluvial: the highlight sequencer of AlluvialDiagram under autoplay *)
(* with the responses of the scenario, hovers, settings changes, a late    *)
(* response and unmounting.                                                *)
(***************************************************************************)
\* mouseenter on the rect of a node
AlluvialNodeMouseEnter(side, i) ==
    /\ alluvial.mounted /\ graph.alluvial.rendered /\ ~alluvial.hover
    /\ hist.events < MaxEvents
    /\ i < Len(IF side = "source" THEN graph.alluvial.sources ELSE graph.alluvial.targets)
    /\ alluvial' = [pauseAnimation(alluvial) EXCEPT
                       !.hover = TRUE, !.interrupted = TRUE, !.animationPhase = "highlighting",
                       !.hoveredSourceIndex = IF side = "source" THEN i ELSE @,
                       !.hoveredTargetIndex = IF side = "target" THEN i ELSE @]
    /\ hist' = [hist EXCEPT !.last = "mouseenter", !.events = @ + 1]
    /\ UNCHANGED <<data, settings, chord, graph, years, admin>>

\* mouseenter on the path of a link
AlluvialLinkMouseEnter(i, j) ==
    /\ alluvial.mounted /\ graph.alluvial.rendered /\ ~alluvial.hover
    /\ hist.events < MaxEvents
    /\ i < Len(graph.alluvial.sources) /\ j < Len(graph.alluvial.targets)
    /\ alluvial' = [pauseAnimation(alluvial) EXCEPT
                       !.hover = TRUE, !.interrupted = TRUE, !.animationPhase = "highlighting",
                       !.hoveredSourceIndex = i, !.hoveredTargetIndex = j]
    /\ hist' = [hist EXCEPT !.last = "mouseenter", !.events = @ + 1]
    /\ UNCHANGED <<data, settings, chord, graph, years, admin>>

\* mouseleave on a rect or a path
AlluvialMouseLeave ==
    /\ alluvial.mounted /\ alluvial.hover
    /\ PendingCount(alluvial) < MaxPending
    /\ alluvial' = [resumeAnimation(alluvial, hist.stops) EXCEPT
                       !.hover = FALSE, !.animationPhase = "full",
                       !.hoveredSourceIndex = NoIndex, !.hoveredTargetIndex = NoIndex]
    /\ hist' = [hist EXCEPT !.last = "mouseleave"]
    /\ UNCHANGED <<data, settings, chord, graph, years, admin>>

\* the fields other than f, in catalog order
TargetsOf(f) == SelectSeq(availableFields, LAMBDA g : g # f)

Closure(t) == [n |-> t.n, hasData |-> t.hasData, speed |-> t.speed]

Guarded(a) == a.animationRef.running /\ ~a.animationRef.isPaused

\* history: how the walk on the field pair that is left went
Walked(a) ==
    IF a.interrupted THEN "interrupted"
    ELSE IF a.walk = Len(graph.alluvial.sources) THEN "complete"
    ELSE "incomplete"

\* the callback of the dwell timer animate set at a source index before the last
StepTimerFires(p) ==
    /\ p.timer.kind = "step"
    /\ IsNext(alluvial, p)
    /\ LET a == Expired(alluvial, p)
       IN alluvial' = IF ~Guarded(a) THEN a
                      ELSE animate([a EXCEPT !.animationRef.currentSourceIndex = @ + 1],
                                   Closure(p.timer), hist.stops)
    /\ hist' = [hist EXCEPT !.last = "step"]
    /\ UNCHANGED <<data, settings, chord, graph, years, admin>>

\* the callback of the timer animate set at the last source index when
\* another target field remains
NextTargetTimerFires(p) ==
    /\ p.timer.kind = "nextTarget"
    /\ IsNext(alluvial, p)
    /\ LET a == Expired(alluvial, p)
           targetOptions == TargetsOf(p.timer.source)
           ti == a.animationRef.currentTargetIndex + 1
           d == animationDurations(p.timer.speed)
       IN alluvial' =
              IF ~Guarded(a) THEN a
              ELSE AlluvialCommit(
                       [a EXCEPT !.animationPhase = "transitioning",
                                 !.animationRef.currentTargetIndex = ti,
                                 !.currentTarget = IF ti < Len(targetOptions) THEN targetOptions[ti + 1] ELSE Undefined,
                                 !.animationRef.currentSourceIndex = 0,
                                 !.timers = @ (+) SetToBag({Timer("animate", d.categoryPauseDuration,
                                                Closure(p.timer), a.currentSource, hist.stops)}),
                                 !.walk = 0, !.interrupted = FALSE, !.walked = Walked(a)],
                       data, settings, hist.stops)
    /\ graph' = Render(graph.diagram, data, settings.useTestData, alluvial', chord)
    /\ hist' = [hist EXCEPT !.last = "nextTarget"]
    /\ UNCHANGED <<data, settings, chord, years, admin>>

\* NextSourceTimerFires with the source field after the next one
NextSourceTimerFires_skipField(p) ==
    /\ p.timer.kind = "nextSource"
    /\ IsNext(alluvial, p)
    /\ LET a == Expired(alluvial, p)
           nextSource == availableFields[((IndexOf(availableFields, a.currentSource) + 2) % Len(availableFields)) + 1]
           newTargetOptions == TargetsOf(nextSource)
           d == animationDurations(p.timer.speed)
       IN alluvial' =
              IF ~Guarded(a) THEN a
              ELSE AlluvialCommit(
                       [a EXCEPT !.animationPhase = "transitioning",
                                 !.currentSource = nextSource,
                                 !.animationRef.currentSourceIndex = 0,
                                 !.animationRef.currentTargetIndex = 0,
                                 !.currentTarget = newTargetOptions[1],
                                 !.timers = @ (+) SetToBag({Timer("animate", (d.categoryPauseDuration * 3) \div 2,
                                                Closure(p.timer), a.currentSource, hist.stops)}),
                                 !.walk = 0, !.interrupted = FALSE, !.walked = Walked(a)],
                       data, settings, hist.stops)
    /\ graph' = Render(graph.diagram, data, settings.useTestData, alluvial', chord)
    /\ hist' = [hist EXCEPT !.last = "nextSource"]
    /\ UNCHANGED <<data, settings, chord, years, admin>>

\* the callback of the timer animate set at the last source index of the
\* last target field
NextSourceTimerFires(p) ==
    /\ p.timer.kind = "nextSource"
    /\ IsNext(alluvial, p)
    /\ LET a == Expired(alluvial, p)
           nextSource == availableFields[((IndexOf(availableFields, a.currentSource) + 1) % Len(availableFields)) + 1]
           newTargetOptions == TargetsOf(nextSource)
           d == animationDurations(p.timer.speed)
       IN alluvial' =
              IF ~Guarded(a) THEN a
              ELSE AlluvialCommit(
                       [a EXCEPT !.animationPhase = "transitioning",
                                 !.currentSource = nextSource,
                                 !.animationRef.currentSourceIndex = 0,
                                 !.animationRef.currentTargetIndex = 0,
                                 !.currentTarget = newTargetOptions[1],
                                 !.timers = @ (+) SetToBag({Timer("animate", (d.categoryPauseDuration * 3) \div 2,
                                                Closure(p.timer), a.currentSource, hist.stops)}),
                                 !.walk = 0, !.interrupted = FALSE, !.walked = Walked(a)],
                       data, settings, hist.stops)
    /\ graph' = Render(graph.diagram, data, settings.useTestData, alluvial', chord)
    /\ hist' = [hist EXCEPT !.last = "nextSource"]
    /\ UNCHANGED <<data, settings, chord, years, admin>>

\* the callback of a timer that only calls animate: after a field-pair change
\* and after a resume
AnimateTimerFires(p) ==
    /\ p.timer.kind = "animate"
    /\ IsNext(alluvial, p)
    /\ LET a == Expired(alluvial, p)
       IN alluvial' = IF Guarded(a) THEN animate(a, Closure(p.timer), hist.stops) ELSE a
    /\ hist' = [hist EXCEPT !.last = "animate"]
    /\ UNCHANGED <<data, settings, chord, graph, years, admin>>

AlluvialTimerFires(p) ==
    \/ StepTimerFires(p)
    \/ NextTargetTimerFires(p)
    \/ NextSourceTimerFires(p)
    \/ AnimateTimerFires(p)

InitAlluvial == Mounted("alluvial", SettingsInit)

NextAlluvial ==
    \/ ReceiveScenario
    \/ ReceiveLateResponse
    \/ \E b \in BOOLEAN : SetAutoPlayEnabled(b)
    \/ \E v \in Speeds : SetAutoPlaySpeed(v)
    \/ Unmount
    \/ \E side \in {"source", "target"}, i \in 0..(MaxHoverIndex - 1) : AlluvialNodeMouseEnter(side, i)
    \/ \E i \in 0..(MaxHoverIndex - 1), j \in 0..(MaxHoverIndex - 1) : AlluvialLinkMouseEnter(i, j)
    \/ AlluvialMouseLeave
    \/ \E p \in PendingTimers(alluvial) : StepTimerFires(p)
    \/ \E p \in PendingTimers(alluvial) : NextTargetTimerFires(p)
    \/ \E p \in PendingTimers(alluvial) : NextSourceTimerFires(p)
    \/ \E p \in PendingTimers(alluvial) : AnimateTimerFires(p)

SpecAlluvial == InitAlluvial /\ [][NextAlluvial]_vars

(***************************************************************************)
(* SpecChord: the highlight sequencer and the mode cycling of ChordDiagram *)
(* under autoplay with the responses of the scenario, hovers on arcs and   *)
(* labels, settings changes, a late response and unmounting, for the first *)
(* MaxTicks periods of the mode-cycling interval.                          *)
(***************************************************************************)
MaxTicks == 6

\* mouseenter on the path of an arc
ChordArcMouseEnter(side, i) ==
    /\ chord.mounted /\ graph.chord.rendered /\ chord.hover = "none"
    /\ hist.events < MaxEvents
    /\ LET arcs == IF side = "left" THEN graph.chord.leftArcs ELSE graph.chord.rightArcs
       IN /\ i < Len(arcs)
          /\ chord' = IF arcs[i + 1].value = 0 THEN [chord EXCEPT !.hover = "arc"]
                      ELSE [chordPauseAnimation(chord) EXCEPT
                               !.hover = "arc", !.animationPhase = "highlighting",
                               !.highlightedArcIndex = i, !.highlightedSide = side]
    /\ hist' = [hist EXCEPT !.last = "mouseenter", !.events = @ + 1]
    /\ UNCHANGED <<data, settings, alluvial, graph, years, admin>>

\* mouseleave on the path of an arc
ChordArcMouseLeave ==
    /\ chord.mounted /\ chord.hover = "arc"
    /\ chord' = [chordResumeAnimation(chord, hist.stops) EXCEPT
                    !.hover = "none", !.frozen = NoCursor, !.animationPhase = "full",
                    !.highlightedArcIndex = NoIndex, !.highlightedSide = "null"]
    /\ hist' = [hist EXCEPT !.last = "mouseleave"]
    /\ UNCHANGED <<data, settings, alluvial, graph, years, admin>>

\* mouseenter on the text of a label
ChordLabelMouseEnter ==
    /\ chord.mounted /\ graph.chord.rendered /\ chord.hover = "none"
    /\ hist.events < MaxEvents
    /\ chord' = [chordPauseAnimation(chord) EXCEPT !.hover = "label"]
    /\ hist' = [hist EXCEPT !.last = "mouseenter", !.events = @ + 1]
    /\ UNCHANGED <<data, settings, alluvial, graph, years, admin>>

\* mouseleave on the text of a label
ChordLabelMouseLeave ==
    /\ chord.mounted /\ chord.hover = "label"
    /\ chord' = Noted([chordResumeAnimation(chord, hist.stops) EXCEPT !.hover = "none", !.frozen = NoCursor])
    /\ hist' = [hist EXCEPT !.last = "mouseleave"]
    /\ UNCHANGED <<data, settings, alluvial, graph, years, admin>>

ChordGuarded(c) == c.animationRef.running /\ ~c.animationRef.isPaused

\* the callback of the timer animate set at an index before the last of a side
ChordStepTimerFires(p) ==
    /\ p.timer.kind = "step"
    /\ ChordIsNext(chord, p)
    /\ LET c == ChordExpired(chord, p)
       IN chord' = IF ~ChordGuarded(c) THEN c
                   ELSE Noted(chordAnimate([c EXCEPT !.animationRef.currentIndex = @ + 1],
                                           ChordClosure(p.timer), hist.stops))
    /\ hist' = [hist EXCEPT !.last = "step"]
    /\ UNCHANGED <<data, settings, alluvial, graph, years, admin>>

\* the callback of the timer animate set at the last index of a side
ChordSideEndTimerFires(p) ==
    /\ p.timer.kind = "sideEnd"
    /\ ChordIsNext(chord, p)
    /\ LET c == ChordExpired(chord, p)
           d == chordDurations(p.timer.speed)
       IN chord' =
              IF ~ChordGuarded(c) THEN c
              ELSE IF c.animationRef.currentSide = "left"
              THEN Noted(chordAnimate([c EXCEPT !.animationRef.currentSide = "right",
                                                !.animationRef.currentIndex = 0],
                                      ChordClosure(p.timer), hist.stops))
              ELSE [c EXCEPT !.animationRef.cycleCount = @ + 1,
                             !.animationPhase = "full",
                             !.highlightedArcIndex = NoIndex, !.highlightedSide = "null",
                             !.animationRef.timer = ChordTimer("fullView", d.stepDuration * 2,
                                                               ChordClosure(p.timer), p.timer.sideLength, hist.stops)]
    /\ hist' = [hist EXCEPT !.last = "sideEnd"]
    /\ UNCHANGED <<data, settings, alluvial, graph, years, admin>>

\* the callback of the timer set when a cycle over both sides is complete
ChordFullViewTimerFires(p) ==
    /\ p.timer.kind = "fullView"
    /\ ChordIsNext(chord, p)
    /\ LET c == ChordExpired(chord, p)
       IN chord' = IF ~ChordGuarded(c) THEN c
                   ELSE Noted(chordAnimate([c EXCEPT !.animationRef.currentSide = "left",
                                                     !.animationRef.currentIndex = 0],
                                           ChordClosure(p.timer), hist.stops))
    /\ hist' = [hist EXCEPT !.last = "fullView"]
    /\ UNCHANGED <<data, settings, alluvial, graph, years, admin>>

\* the callback of the timer restartMainAnimation set
ChordResumeTimerFires(p) ==
    /\ p.timer.kind = "resume"
    /\ ChordIsNext(chord, p)
    /\ LET c == ChordExpired(chord, p)
           r == c.animationRef
           advanced == IF r.currentIndex < p.timer.sideLength - 1
                       THEN [r EXCEPT !.currentIndex = @ + 1]
                       ELSE [r EXCEPT !.currentSide = IF @ = "left" THEN "right" ELSE "left",
                                      !.currentIndex = 0]
       IN chord' = IF ~ChordGuarded(c) THEN c
                   ELSE Noted(restartMainAnimation([c EXCEPT !.animationRef = advanced],
                                                   ChordClosure(p.timer), hist.stops))
    /\ hist' = [hist EXCEPT !.last = "resume"]
    /\ UNCHANGED <<data, settings, alluvial, graph, years, admin>>

\* the callback of the mode-cycling setInterval
ChordIntervalFires ==
    /\ chord.interval # NoTimer
    /\ ChordIsNext(chord, [timer |-> chord.interval, tracked |-> FALSE])
    /\ hist.ticks < MaxTicks
    /\ LET c == [Elapsed(chord, chord.interval.due) EXCEPT !.interval.due = chord.interval.delay]
           nextModeIndex == (c.currentModeIndexRef + 1) % Len(c.modes)
           nextMode == c.modes[nextModeIndex + 1]
       IN chord' = IF nextMode.source = nextMode.target THEN c
                   ELSE ChordCommit([c EXCEPT !.currentModeIndexRef = nextModeIndex,
                                              !.currentSource = nextMode.source,
                                              !.currentTarget = nextMode.target],
                                    data, settings, hist.stops)
    /\ graph' = Render(graph.diagram, data, settings.useTestData, alluvial, chord')
    /\ hist' = [hist EXCEPT !.last = "interval", !.ticks = @ + 1]
    /\ UNCHANGED <<data, settings, alluvial, years, admin>>

ChordTimerFires(p) ==
    \/ ChordStepTimerFires(p)
    \/ ChordSideEndTimerFires(p)
    \/ ChordFullViewTimerFires(p)
    \/ ChordResumeTimerFires(p)

InitChord == Mounted("chord", SettingsInit)

NextChord ==
    \/ ReceiveScenario
    \/ ReceiveLateResponse
    \/ \E b \in BOOLEAN : SetAutoPlayEnabled(b)
    \/ \E v \in Speeds : SetAutoPlaySpeed(v)
    \/ Unmount
    \/ \E side \in {"left", "right"}, i \in 0..(MaxHoverIndex - 1) : ChordArcMouseEnter(side, i)
    \/ ChordArcMouseLeave
    \/ ChordLabelMouseEnter
    \/ ChordLabelMouseLeave
    \/ \E p \in PendingTimers(chord) : ChordStepTimerFires(p)
    \/ \E p \in PendingTimers(chord) : ChordSideEndTimerFires(p)
    \/ \E p \in PendingTimers(chord) : ChordFullViewTimerFires(p)
    \/ \E p \in PendingTimers(chord) : ChordResumeTimerFires(p)
    \/ ChordIntervalFires

SpecChord == InitChord /\ [][NextChord]_vars

(***************************************************************************)
(* SpecCycle: SpecChord with a rotation list that holds degenerate pairs.  *)
(***************************************************************************)
InitCycle ==
    /\ data = <<>>
    /\ settings = SettingsInit
    /\ alluvial = AlluvialInit
    /\ chord = ChordCommit([ChordInit EXCEPT !.mounted = TRUE, !.modes = cyclingModes_withSelfPairs],
                           <<>>, SettingsInit, 0)
    /\ graph = Render("chord", <<>>, SettingsInit.useTestData, alluvial, chord)
    /\ years = YearsInit
    /\ admin = AdminInit
    /\ hist = HistInit

SpecCycle == InitCycle /\ [][NextChord]_vars

(***************************************************************************)
(* SpecFilter: the two sequencers over record lists that hold test data,   *)
(* with the test-data switch of the settings.                              *)
(***************************************************************************)
\* toggleTestData of the settings provider
ToggleTestData ==
    /\ alluvial.mounted \/ chord.mounted
    /\ hist.events < MaxEvents
    /\ settings' = [settings EXCEPT !.useTestData = ~@]
    /\ hist' = [hist EXCEPT !.last = "testdata", !.events = @ + 1]
    /\ Rerender(alluvial, [chord EXCEPT !.frozen = NoCursor], data, settings', hist')
    /\ UNCHANGED <<data, years, admin>>

InitFilter == \E diagram \in {"alluvial", "chord"} : Mounted(diagram, SettingsInit)

NextFilter ==
    \/ \E r \in Responses : ReceiveResponse(r)
    \/ ToggleTestData
    \/ \E b \in BOOLEAN : SetAutoPlayEnabled(b)
    \/ \E p \in PendingTimers(alluvial) : StepTimerFires(p)
    \/ \E p \in PendingTimers(alluvial) : NextTargetTimerFires(p)
    \/ \E p \in PendingTimers(alluvial) : NextSourceTimerFires(p)
    \/ \E p \in PendingTimers(alluvial) : AnimateTimerFires(p)
    \/ \E p \in PendingTimers(chord) : ChordStepTimerFires(p)
    \/ \E p \in PendingTimers(chord) : ChordSideEndTimerFires(p)
    \/ \E p \in PendingTimers(chord) : ChordFullViewTimerFires(p)
    \/ ChordIntervalFires

SpecFilter == InitFilter /\ [][NextFilter]_vars

(***************************************************************************)
(* SpecSpeed: the two sequencers under every speed the settings can be     *)
(* given, over small record lists; no time passes.                         *)
(***************************************************************************)
SpeedStep == 500

MaxSpeedSteps == 12

ConfiguredSpeeds == {k * SpeedStep : k \in 0..MaxSpeedSteps}

\* updateAutoPlaySpeed(v) of the settings context
UpdateAutoPlaySpeed(v) ==
    /\ settings' = [settings EXCEPT !.autoPlaySpeed = v]
    /\ hist' = [hist EXCEPT !.last = "speed"]
    /\ Rerender(alluvial, [chord EXCEPT !.frozen = NoCursor], data, settings', hist')
    /\ UNCHANGED <<data, years, admin>>

InitSpeed == \E diagram \in {"alluvial", "chord"} : Mounted(diagram, SettingsInit)

NextSpeed ==
    \/ \E r \in Responses : ReceiveResponse(r)
    \/ \E v \in ConfiguredSpeeds : UpdateAutoPlaySpeed(v)

SpecSpeed == InitSpeed /\ [][NextSpeed]_vars

(***************************************************************************)
(* SpecRotation: the rotation of AlluvialDiagram over the field pairs in   *)
(* uninterrupted autoplay: the responses of the scenario arrive once, no   *)
(* pointer, settings or data event follows.  Fairness: the data hook       *)
(* delivers the responses, and the event loop of the browser runs every    *)
(* due callback, so that a pending timer expires again and again (while    *)
(* the sequencer runs one timer is always pending).                        *)
(***************************************************************************)
RotationSpeeds == Speeds \cup {SettingsInit.autoPlaySpeed}

InitRotation == \E v \in RotationSpeeds : Mounted("alluvial", [SettingsInit EXCEPT !.autoPlaySpeed = v])

NextRotation ==
    \/ ReceiveScenario
    \/ \E p \in PendingTimers(alluvial) : StepTimerFires(p)
    \/ \E p \in PendingTimers(alluvial) : NextTargetTimerFires(p)
    \/ \E p \in PendingTimers(alluvial) : NextSourceTimerFires(p)
    \/ \E p \in PendingTimers(alluvial) : AnimateTimerFires(p)

TimerExpires == \E p \in PendingTimers(alluvial) : AlluvialTimerFires(p)

SpecRotation ==
    /\ InitRotation /\ [][NextRotation]_vars
    /\ WF_vars(ReceiveScenario)
    /\ []<><<TimerExpires>>_vars

(***************************************************************************)
(* SpecModerate: the moderation of AdminPanel: the pending responses are   *)
(* fetched, the moderator uses the buttons of the rows shown, the update   *)
(* calls answer in any order, with or without error.                       *)
(***************************************************************************)
\* the ids of the pending responses the database may hold
PendingRows == {[i \in 1..n |-> i] : n \in 1..MaxRows}

\* fetchResponses answers without error: setResponses(data.map(...))
FetchResponses(rows) ==
    /\ admin.loading
    /\ admin' = [admin EXCEPT !.loading = FALSE, !.responses = rows]
    /\ hist' = [hist EXCEPT !.last = "fetch"]
    /\ UNCHANGED <<data, settings, alluvial, chord, graph, years>>

\* moderate(id, status, tag) up to its await: the update is sent; what runs
\* after the await closes over the responses of the render the button is of
Moderate(id) ==
    /\ ~admin.loading
    /\ id \in Range(admin.responses)
    /\ Cardinality(admin.calls) < MaxCalls
    /\ admin' = [admin EXCEPT !.calls = @ \cup {[id |-> id, responses |-> admin.responses]}]
    /\ hist' = [hist EXCEPT !.last = "moderate"]
    /\ UNCHANGED <<data, settings, alluvial, chord, graph, years>>

\* the update of call answers without error:
\* setResponses(responses.filter((r) => r.id !== id))
ModerationSucceeds(call) ==
    /\ call \in admin.calls
    /\ admin' = [admin EXCEPT !.calls = @ \ {call},
                              !.responses = SelectSeq(call.responses, LAMBDA r : r # call.id),
                              !.moderated = @ \cup {call.id}]
    /\ hist' = [hist EXCEPT !.last = "moderationSucceeded"]
    /\ UNCHANGED <<data, settings, alluvial, chord, graph, years>>

\* the update of call answers with an error: alert(error.message)
ModerationFails(call) ==
    /\ call \in admin.calls
    /\ admin.alerts < MaxAlerts
    /\ admin' = [admin EXCEPT !.calls = @ \ {call}, !.alerts = @ + 1]
    /\ hist' = [hist EXCEPT !.last = "moderationFailed"]
    /\ UNCHANGED <<data, settings, alluvial, chord, graph, years>>

InitModerate == Mounted("alluvial", [SettingsInit EXCEPT !.isAutoPlayEnabled = FALSE])

NextModerate ==
    \/ \E rows \in PendingRows : FetchResponses(rows)
    \/ \E id \in 1..MaxRows : Moderate(id)
    \/ \E call \in admin.calls : ModerationSucceeds(call)
    \/ \E call \in admin.calls : ModerationFails(call)

SpecModerate == InitModerate /\ [][NextModerate]_vars

(***************************************************************************)
(* Properties of the highlight sequencers (SpecAlluvial, SpecChord).       *)
(***************************************************************************)
\* the records the specification calls eligible
EligibleRecords == IF settings.useTestData THEN data ELSE SelectSeq(data, LAMBDA r : ~r.test_data)

\* a timer that was scheduled before the last stop of the sequencer
Stale(p) == p.timer.stops < hist.stops

\* C1: once the sequencer has been stopped (autoplay disabled or the
\* component torn down), no timer callback scheduled before the stop changes
\* the cursor, the field pair or the highlight: every such timer is cancelled
\* or fires as a no-op, whatever the interleaving of stop, restart and expiry.
C1_StoppedTimersAreNoOps ==
    [][\A p \in PendingTimers(alluvial) :
          (Stale(p) /\ AlluvialTimerFires(p)) => alluvial' = Expired(alluvial, p)]_vars

\* C2: at every moment a diagram instance has at most one pending timer that
\* can advance its cursor, so two step chains never run side by side (stated
\* for the running sequencer of an autoplay that no user or settings event
\* touched).
C2_OnePendingTimer ==
    (hist.events = 0 /\ Guarded(alluvial)) => PendingCount(alluvial) <= 1

\* C3: after the sequencer starts on a field pair with N source nodes, the
\* dwell-timer expiries highlight the source indices 0, 1, ..., N-1 in this
\* order, none skipped, before the field pair changes (stated for an autoplay
\* that no user or settings event touched).
C3_IndicesInOrderOnce ==
    hist.events = 0 => (alluvial.walk # OutOfOrder /\ alluvial.walked # "incomplete")

\* C4: if a hover pauses the sequencer while index k is highlighted, the
\* first step highlighted after the hover ends is again index k on the same
\* side of the same field pair.
C4_ResumeAtCapturedIndex ==
    (chord.resumedAt.index # NoIndex /\ chord.first # NoCursor) => chord.first = chord.resumedAt

\* C5: from hover-start until hover-end the cursor is frozen: neither its
\* side, its index nor its field pair changes (stated for the time before
\* the mode-cycling interval fires first).
C5_CursorFrozenDuringHover ==
    (hist.ticks = 0 /\ chord.hover # "none" /\ chord.frozen # NoCursor) => ChordCursor(chord) = chord.frozen

\* the Idle state of the sequencers: stopped, nothing scheduled, full view,
\* and the cursor back at nothing
AlluvialIdle(a) ==
    /\ ~a.animationRef.running
    /\ PendingTimers(a) = {}
    /\ a.animationPhase = "full"
    /\ a.hoveredSourceIndex = NoIndex /\ a.hoveredTargetIndex = NoIndex
    /\ a.animationRef.currentSourceIndex = 0

ChordIdle(c) ==
    /\ ~c.animationRef.running
    /\ PendingTimers(c) = {}
    /\ c.animationPhase = "full"
    /\ c.highlightedArcIndex = NoIndex /\ c.highlightedSide = "null"
    /\ c.animationRef.currentIndex = 0 /\ c.animationRef.currentSide = "left"

\* C15: after autoplay is disabled the sequencer is Idle: it is not running,
\* no timer is pending, no node is highlighted (full view), and the cursor is
\* cleared, holding no position from the earlier run (stated for the time
\* the pointer is on no node).
C15_DisabledIsIdle ==
    /\ (alluvial.mounted /\ ~settings.isAutoPlayEnabled /\ ~alluvial.hover) => AlluvialIdle(alluvial)
    /\ (chord.mounted /\ ~settings.isAutoPlayEnabled /\ chord.hover = "none") => ChordIdle(chord)

\* a step in which the start/stop effect runs with autoplay enabled and
\* records to show: the sequencer is started
AlluvialStarted ==
    /\ alluvial'.mounted
    /\ alluvial'.effect.deps # alluvial.effect.deps
    /\ settings'.isAutoPlayEnabled
    /\ Len(filteredData(data', settings'.useTestData)) > 0

\* the state CyclingSource at its first index
CyclingSourceAtZero(a) ==
    /\ a.animationRef.running
    /\ a.animationPhase = "highlighting"
    /\ a.hoveredSourceIndex = 0
    /\ a.animationRef.timer # NoTimer

\* C16: whenever the sequencer is started with autoplay enabled and data
\* present, it enters CyclingSource: source index 0 is highlighted and a
\* dwell timer is pending, whatever state the diagram was in at the start.
C16_StartEntersCyclingSource ==
    [][AlluvialStarted => CyclingSourceAtZero(alluvial')]_vars

\* C17: while the set of eligible records (after the test-data filter) is
\* empty, the sequencer is in no cycling state and has no pending step timer.
C17_NoCyclingWithoutEligibleRecords ==
    Len(EligibleRecords) = 0 =>
        /\ alluvial.mounted =>
               /\ ~alluvial.animationRef.running
               /\ alluvial.animationPhase # "highlighting"
               /\ alluvial.animationRef.timer = NoTimer
        /\ chord.mounted =>
               /\ ~chord.animationRef.running
               /\ chord.animationPhase # "highlighting"
               /\ chord.animationRef.timer = NoTimer

\* a step that replaces the field pair a diagram shows
AlluvialPairChanged ==
    <<alluvial'.currentSource, alluvial'.currentTarget>> # <<alluvial.currentSource, alluvial.currentTarget>>

ChordPairChanged ==
    <<chord'.currentSource, chord'.currentTarget>> # <<chord.currentSource, chord.currentTarget>>

\* C18: for each field pair shown during uninterrupted autoplay the cursor
\* visits every source node and then every target node, and the field pair
\* advances only after that walk is complete: at the step that advances the
\* pair all source nodes have been highlighted and the cursor stands on the
\* last target node.
C18_PairAdvancesAfterFullWalk ==
    [][hist'.events = 0 =>
          /\ (alluvial.mounted /\ AlluvialPairChanged) =>
                 /\ Walked(alluvial) = "complete"
                 /\ alluvial.hoveredTargetIndex = Len(graph.alluvial.targets) - 1
          /\ (chord.mounted /\ ChordPairChanged) =>
                 /\ chord.animationRef.currentSide = "right"
                 /\ chord.animationRef.currentIndex = Len(allCategories[chord.currentTarget]) - 1]_vars


NextField(f) == availableFields[((IndexOf(availableFields, f) + 1) % Len(availableFields)) + 1]

\* the callback of the timer set at the last source index ran
LastDwellExpired == hist'.last \in {"nextTarget", "nextSource"} /\ Guarded(alluvial)

\* the pair and the indices the rotation is to show after the pair (cs, ct)
AfterLastDwell(cs, ct, a) ==
    IF ct \in Range(TargetsOf(cs)) /\ ct # TargetsOf(cs)[Len(TargetsOf(cs))]
    THEN /\ a.currentSource = cs
         /\ a.currentTarget = TargetsOf(cs)[IndexOf(TargetsOf(cs), ct) + 2]
         /\ a.animationRef.currentSourceIndex = 0
    ELSE /\ a.currentSource = NextField(cs)
         /\ a.currentTarget = TargetsOf(NextField(cs))[1]
         /\ a.animationRef.currentSourceIndex = 0
         /\ a.animationRef.currentTargetIndex = 0

\* C23: when the dwell timer expires at the last source index, the pair
\* becomes (same source, next target) with source index 0 if the current
\* target is not the last target of the current source, and otherwise
\* (next source in catalog order, wrapping around, first field other than
\* it) with both indices 0.
C23_LastDwellAdvancesPair ==
    [][LastDwellExpired => AfterLastDwell(alluvial.currentSource, alluvial.currentTarget, alluvial')]_vars

(***************************************************************************)
(* Properties of the flow aggregation (SpecAggregate).                     *)
(***************************************************************************)
RECURSIVE SumFn(_)
SumFn(f) == IF DOMAIN f = {} THEN 0
            ELSE LET x == CHOOSE x \in DOMAIN f : TRUE
                 IN f[x] + SumFn([y \in DOMAIN f \ {x} |-> f[y]])

\* the count an Alluvial link stands for: a dummy link stands for no record
EdgeCount(link) == IF link.isDummy THEN 0 ELSE link.value \div ValueScale

AlluvialEdgeSum == SumFn([p \in DOMAIN graph.alluvial.links |-> EdgeCount(graph.alluvial.links[p])])

ChordRowSum(i) == SumSeq(graph.chord.connectionMatrix[i])

ChordColumnSum(j) ==
    SumSeq([i \in 1..Len(graph.chord.connectionMatrix) |-> graph.chord.connectionMatrix[i][j]])

ChordEdgeSum == SumSeq([i \in 1..Len(graph.chord.connectionMatrix) |-> ChordRowSum(i)])

\* a field pair whose labels are read from the records as they are
Categorical(cs, ct) == "years_at_medtronic" \notin {cs, ct}

\* C6: for every record set and valid field pair, the sum of all edge counts
\* of the aggregated graph equals the number of eligible records (stated for
\* the field pairs without the years field).
C6_EdgeSumEqualsEligible ==
    /\ (graph.alluvial.rendered /\ Categorical(alluvial.currentSource, alluvial.currentTarget))
           => AlluvialEdgeSum = Len(EligibleRecords)
    /\ (graph.chord.rendered /\ Categorical(chord.currentSource, chord.currentTarget))
           => ChordEdgeSum = Len(EligibleRecords)

\* the sum of the matrix cells of the edges that carry the label of a Chord arc
ChordLeftEdges(name) ==
    LET i == IndexOf(graph.chord.sourceArray, name)
    IN IF i < 0 THEN 0 ELSE ChordRowSum(i + 1)

ChordRightEdges(name) ==
    LET j == IndexOf(graph.chord.targetArray, name)
    IN IF j < 0 THEN 0 ELSE ChordColumnSum(j + 1)

\* C7: each node's aggregate count equals the sum of the counts of the edges
\* attached to it (row sum for a source node, column sum for a target node;
\* stated for the field pairs without the years field).
C7_NodeCountIsEdgeSum ==
    (graph.chord.rendered /\ Categorical(chord.currentSource, chord.currentTarget)) =>
        /\ \A i \in 1..Len(graph.chord.leftArcs) :
              graph.chord.leftArcs[i].value = ChordLeftEdges(graph.chord.leftArcs[i].name)
        /\ \A j \in 1..Len(graph.chord.rightArcs) :
              graph.chord.rightArcs[j].value = ChordRightEdges(graph.chord.rightArcs[j].name)

\* the label a record shows under field f, or Null when it shows none
LabelOf(r, f) ==
    IF f = "years_at_medtronic"
    THEN (IF r.years_at_medtronic.t = "number" /\ r.years_at_medtronic.v > 20 THEN "20+"
          ELSE IF r.years_at_medtronic.t = "number" /\ r.years_at_medtronic.v > 15 THEN "16-20"
          ELSE IF r.years_at_medtronic.t = "number" /\ r.years_at_medtronic.v > 10 THEN "11-15"
          ELSE IF r.years_at_medtronic.t = "number" /\ r.years_at_medtronic.v > 5 THEN "6-10"
          ELSE "0-5")
    ELSE IF r[f] = "" THEN Null ELSE r[f]

ObservedLabels(f) == {LabelOf(EligibleRecords[i], f) : i \in 1..Len(EligibleRecords)} \ {Null}

\* the eligible records that show the label s under cs and the label t under ct
Matching(cs, ct, s, t) ==
    {i \in 1..Len(EligibleRecords) :
        LabelOf(EligibleRecords[i], cs) = s /\ LabelOf(EligibleRecords[i], ct) = t}

ScenarioShown ==
    /\ data = Scenario
    /\ alluvial.currentSource = "years_at_medtronic"
    /\ alluvial.currentTarget = "learning_style"
    /\ graph.alluvial.rendered

SourceNodeCount(s) ==
    SumFn([p \in {q \in DOMAIN graph.alluvial.links : q[1] = s} |-> EdgeCount(graph.alluvial.links[p])])

TargetNodeCount(t) ==
    SumFn([p \in {q \in DOMAIN graph.alluvial.links : q[2] = t} |-> EdgeCount(graph.alluvial.links[p])])

CountedLabel(r, f) == IF LabelOf(r, f) = Null THEN "Unknown" ELSE LabelOf(r, f)

CountedUnder(f, l) == Cardinality({i \in 1..Len(EligibleRecords) : CountedLabel(EligibleRecords[i], f) = l})

CountedLabels(f) == {CountedLabel(EligibleRecords[i], f) : i \in 1..Len(EligibleRecords)}

ChordArcValue(arcs, l) ==
    LET I == {i \in 1..Len(arcs) : arcs[i].name = l}
    IN IF I = {} THEN 0 ELSE arcs[CHOOSE i \in I : TRUE].value

\* C13: every eligible record is counted under exactly one label on each
\* side, and a record whose field value is null, undefined or empty is
\* counted under the label Unknown, not left out: on each side the count of
\* every label is the number of eligible records to be counted under it
\* (stated for the field pairs without the years field).
C13_MissingValuesCountedAsUnknown ==
    /\ (graph.alluvial.rendered /\ Categorical(alluvial.currentSource, alluvial.currentTarget)) =>
           /\ \A l \in CountedLabels(alluvial.currentSource) \cup Range(graph.alluvial.sources) :
                  SourceNodeCount(l) = CountedUnder(alluvial.currentSource, l)
           /\ \A l \in CountedLabels(alluvial.currentTarget) \cup Range(graph.alluvial.targets) :
                  TargetNodeCount(l) = CountedUnder(alluvial.currentTarget, l)
    /\ (graph.chord.rendered /\ Categorical(chord.currentSource, chord.currentTarget)) =>
           /\ \A l \in CountedLabels(chord.currentSource) \cup Range(graph.chord.sourceArray) :
                  ChordArcValue(graph.chord.leftArcs, l) = CountedUnder(chord.currentSource, l)
           /\ \A l \in CountedLabels(chord.currentTarget) \cup Range(graph.chord.targetArray) :
                  ChordArcValue(graph.chord.rightArcs, l) = CountedUnder(chord.currentTarget, l)

\* the message "Not enough data to show a meaningful flow diagram." of the
\* Alluvial diagram: nodeCount <= 2 || sources.length <= 1 || targets.length <= 1
sparseDataMessage(g) ==
    LET nodeCount == Max(Max(Len(g.sources), Len(g.targets)), 1)
    IN nodeCount <= 2 \/ Len(g.sources) <= 1 \/ Len(g.targets) <= 1

\* C14: when no eligible record remains after the test-data filter, the
\* aggregation yields empty node and edge sets and the diagram that is shown
\* is in its insufficient-data state instead of drawing a chart.
C14_NoEligibleRecordNoChart ==
    Len(EligibleRecords) = 0 =>
        /\ graph.diagram = "alluvial" =>
               /\ graph.alluvial.sources = <<>> /\ graph.alluvial.targets = <<>>
               /\ DOMAIN graph.alluvial.links = {}
               /\ ~graph.alluvial.rendered
               /\ sparseDataMessage(graph.alluvial)
        /\ graph.diagram = "chord" =>
               /\ graph.chord.leftArcs = <<>> /\ graph.chord.rightArcs = <<>>
               /\ graph.chord.connectionMatrix = <<>>
               /\ ~graph.chord.rendered

\* the labels of the model in alphabetical order
Alphabetical == <<"Ambivert, Morning", "Ambivert, Night", "auditory", "autonomy", "challenge",
    "Extrovert, Evening", "Extrovert, Morning", "failure", "growth", "impact",
    "Introvert, Morning", "Introvert, Night", "kinesthetic", "mentor", "motivation", "other",
    "purpose", "reading_writing", "recognition", "success", "team", "Unknown", "visual">>

\* the order the nodes of field f have to be in
NodeOrderOf(f) == IF f = "years_at_medtronic" THEN YEARS_CATEGORIES ELSE Alphabetical

Reversed(s) == [i \in 1..Len(s) |-> s[Len(s) + 1 - i]]

ArcNames(arcs) == [i \in 1..Len(arcs) |-> arcs[i].name]

\* the node lists of the diagram that is shown, built from the record list d
NodeLists(d) ==
    LET g == Render(graph.diagram, d, settings.useTestData, alluvial, chord)
    IN IF graph.diagram = "chord"
       THEN [left |-> ArcNames(g.chord.leftArcs), right |-> ArcNames(g.chord.rightArcs),
             source |-> chord.currentSource, target |-> chord.currentTarget]
       ELSE [left |-> g.alluvial.sources, right |-> g.alluvial.targets,
             source |-> alluvial.currentSource, target |-> alluvial.currentTarget]

\* C19: the node order on each side depends only on the set of labels: years
\* buckets come in the order 0-5, 6-10, 11-15, 16-20, 20+ and categorical
\* labels in alphabetical order, so the record list taken in another order
\* (here: reversed) gives the same node order, in both diagrams.
C19_NodeOrderDependsOnLabelSet ==
    LET n == NodeLists(data)
    IN /\ n.left = SortByRank(n.left, NodeOrderOf(n.source))
       /\ n.right = SortByRank(n.right, NodeOrderOf(n.target))
       /\ NodeLists(Reversed(data)) = n

\* extent(a) * count(b) = extent(b) * count(a) for the arcs a and b
Proportional(a, b) == a.span.num * b.span.den * b.value = b.span.num * a.span.den * a.value

EqualExtent(a, b) == a.span.num * b.span.den = b.span.num * a.span.den

AboveMinimum(a) == a.span.num > minArcSpacing * a.span.den

ExtentsOf(arcs, f) ==
    IF f = "years_at_medtronic"
    THEN /\ Len(arcs) = Len(YEARS_GROUPS)
         /\ \A i \in 1..Len(arcs) :
                arcs[i].span.num * Len(arcs) = (sideArcSpan - minArcSpacing * (Len(arcs) - 1)) * arcs[i].span.den
    ELSE \A i, j \in 1..Len(arcs) :
            /\ arcs[i].value > 0
            /\ arcs[i].span.num >= minArcSpacing * arcs[i].span.den
            /\ (AboveMinimum(arcs[i]) /\ AboveMinimum(arcs[j])) => Proportional(arcs[i], arcs[j])

TotalsDiffer(n) == n.leftSum # <<>> /\ n.rightSum # <<>> /\ n.leftSum # n.rightSum

\* C21: when the total of the source side and the total of the target side
\* differ, the normalization scales the smaller side up so that afterwards
\* both sides have the same total, and the values of the larger side are
\* left unchanged.
C21_SmallerSideScaledUp ==
    (graph.alluvial.rendered /\ TotalsDiffer(graph.alluvial.normalization)) =>
        LET n == graph.alluvial.normalization
        IN /\ NumberSum(n.leftTotalsAfter) = NumberSum(n.rightTotalsAfter)
           /\ IF NumberGreater(n.leftSum, n.rightSum)
              THEN n.leftTotalsAfter = n.leftTotals
              ELSE n.rightTotalsAfter = n.rightTotals

(***************************************************************************)
(* Properties of the dwell durations (SpecSpeed).                          *)
(***************************************************************************)
\* the pending timer of a walk, when it is the dwell of one category step
StepDwell(ref) == ref.timer # NoTimer /\ ref.timer.kind = "step"

\* C22: for every configured autoplay speed the dwell time of one category
\* step is strictly shorter than the pause (Alluvial) or the interval (Chord)
\* of a field-pair switch derived from the same speed.
C22_StepShorterThanPairSwitch ==
    /\ StepDwell(alluvial.animationRef) =>
           alluvial.animationRef.timer.delay
               < animationDurations(alluvial.animationRef.timer.speed).categoryPauseDuration
    /\ (StepDwell(chord.animationRef) /\ chord.interval # NoTimer) =>
           chord.animationRef.timer.delay < chord.interval.delay

(***************************************************************************)
(* Properties of the years normalizer (SpecYears).                         *)
(***************************************************************************)
\* C10: the years normalizer maps every value to exactly one of the five
\* labels: not a number, NaN or below 0 to 0-5; 0..5 to 0-5; 6..10 to 6-10;
\* 11..15 to 11-15; 16..20 to 16-20; every value above 20 to 20+.
C10_YearsNormalizer ==
    years.called =>
        LET y == years.arg
            c == years.category
        IN /\ c \in Range(YEARS_CATEGORIES)
           /\ (y.t # "number" \/ y.v < 0) => c = "0-5"
           /\ (y.t = "number" /\ y.v \in 0..5) => c = "0-5"
           /\ (y.t = "number" /\ y.v \in 6..10) => c = "6-10"
           /\ (y.t = "number" /\ y.v \in 11..15) => c = "11-15"
           /\ (y.t = "number" /\ y.v \in 16..20) => c = "16-20"
           /\ (y.t = "number" /\ y.v > 20) => c = "20+"

C10_Witness == years.called /\ years.arg = Num(5) /\ years.category = "0-5"

(***************************************************************************)
(* Properties of the shown field pair.                                     *)
(***************************************************************************)
\* C11: in every reachable state the field pair a mounted diagram shows has
\* a source different from its target, whether the pair comes from the
\* initial state, the rotation, or the user's choice of source or target.
C11_SourceDiffersFromTarget ==
    /\ alluvial.mounted => alluvial.currentSource # alluvial.currentTarget
    /\ chord.mounted => chord.currentSource # chord.currentTarget

\* the pair the next tick of the rotation interval looks at
NextMode(c) == c.modes[((c.currentModeIndexRef + 1) % Len(c.modes)) + 1]

NextModeIsDegenerate(c) == NextMode(c).source = NextMode(c).target

DisplayedOnSide(side) ==
    IF side = "left" THEN Len(graph.chord.leftArcs) ELSE Len(graph.chord.rightArcs)

SequencerHighlights ==
    /\ chord.mounted /\ chord.hover = "none"
    /\ chord.highlightedArcIndex # NoIndex

\* C24: whenever the sequencer highlights a node, the cursor index lies in
\* 0..N-1, N the number of nodes displayed on the cursor's side for the
\* current field pair; an index left out of range by a field-pair or data
\* change is reset to 0 before it is used.
C24_CursorWithinDisplayedNodes ==
    SequencerHighlights =>
        /\ chord.highlightedArcIndex \in 0..(DisplayedOnSide(chord.highlightedSide) - 1)
        /\ chord.animationRef.currentIndex \in 0..(DisplayedOnSide(chord.animationRef.currentSide) - 1)

\* the last step was a tick of the rotation that replaced the shown pair
PairJustChanged ==
    /\ chord.mounted /\ hist.last = "interval"
    /\ chord.modes[chord.currentModeIndexRef + 1] =
           [source |-> chord.currentSource, target |-> chord.currentTarget]

\* a timer of the walk expires and the sequencer highlights a node
SequencerHighlightsNext ==
    /\ hist'.last \in {"step", "sideEnd", "fullView", "resume"}
    /\ chord'.hover = "none"
    /\ chord'.highlightedArcIndex # NoIndex

\* C25: after every change of the displayed field pair, the next node the
\* sequencer highlights is index 0 of the source side of the new pair.
C25_NewPairStartsAtFirstSource ==
    [][(PairJustChanged /\ SequencerHighlightsNext)
          => chord'.highlightedArcIndex = 0 /\ chord'.highlightedSide = "left"]_vars

(***************************************************************************)
(* Properties of the rotation of AlluvialDiagram (SpecRotation).           *)
(***************************************************************************)
ShownPair == <<alluvial.currentSource, alluvial.currentTarget>>

OrderedPairs == {<<f, g>> : f, g \in Range(availableFields)} \ {<<f, f>> : f \in Range(availableFields)}

\* the ordered pairs in the order of the catalog: by source field, then by
\* target field
CatalogOrder ==
    LET perSource == Len(availableFields) - 1
    IN [k \in 1..(Len(availableFields) * perSource) |->
           LET f == availableFields[((k - 1) \div perSource) + 1]
           IN <<f, TargetsOf(f)[((k - 1) % perSource) + 1]>>]

PositionOf(pair) == IndexOf(CatalogOrder, pair) + 1

\* C26: in uninterrupted autoplay with data present the rotation displays
\* every ordered pair of distinct fields, each exactly once per rotation and
\* in the fixed catalog order, before it returns to the first pair: the
\* catalog lists every ordered pair once, every change of the shown pair goes
\* to the next position of the catalog (the first after the last), and the
\* rotation reaches the last pair and from there the first one again (so
\* that it passes every position in between, time after time).
C26_RotationShowsEveryPairInOrder ==
    /\ [](Range(CatalogOrder) = OrderedPairs /\ Unique(CatalogOrder) = CatalogOrder)
    /\ [][AlluvialPairChanged =>
              /\ PositionOf(ShownPair) >= 1
              /\ PositionOf(ShownPair') = (PositionOf(ShownPair) % Len(CatalogOrder)) + 1]_vars
    /\ (data # <<>>) ~> (PositionOf(ShownPair) = Len(CatalogOrder))
    /\ (PositionOf(ShownPair) = Len(CatalogOrder)) ~> (PositionOf(ShownPair) = 1)

C26_Witness ==
    /\ data # <<>> /\ Guarded(alluvial)
    /\ ShownPair = CatalogOrder[Len(CatalogOrder)]
    /\ alluvial.walked = "complete"

(***************************************************************************)
(* Properties of the target index of AlluvialDiagram.                      *)
(***************************************************************************)
\* C27: whenever the Alluvial sequencer is running, the displayed target
\* field is the entry at position currentTargetIndex in the list of fields
\* other than the current source field, also after a restart caused by a
\* speed or data change and after the cycle-limit reset.
C27_TargetIsEntryAtTargetIndex ==
    (alluvial.mounted /\ alluvial.animationRef.running) =>
        /\ alluvial.animationRef.currentTargetIndex < Len(TargetsOf(alluvial.currentSource))
        /\ alluvial.currentTarget =
               TargetsOf(alluvial.currentSource)[alluvial.animationRef.currentTargetIndex + 1]

(***************************************************************************)
(* Properties of the ribbons of ChordDiagram.                              *)
(***************************************************************************)
\* the name of the arc at position i of arcs (from 0); JS reads undefined
\* past the end
ArcAt(arcs, i) == IF i < Len(arcs) THEN arcs[i + 1].name ELSE Undefined

\* the ribbons the render effect draws: one per positive cell of the
\* matrix, attached to leftArcs[i] and rightArcs[j]
connections(g) ==
    {[source |-> g.sourceArray[i + 1], target |-> g.targetArray[j + 1],
      value |-> g.connectionMatrix[i + 1][j + 1],
      left |-> ArcAt(g.leftArcs, i), right |-> ArcAt(g.rightArcs, j)] :
         <<i, j>> \in {<<i, j>> \in (0..(Len(g.sourceArray) - 1)) \X (0..(Len(g.targetArray) - 1)) :
                          g.connectionMatrix[i + 1][j + 1] > 0}}

\* C28: every ribbon that carries the count for (source label s, target
\* label t) is attached to the arc labelled s on the left side and to the
\* arc labelled t on the right side (stated for the field pairs without the
\* years field).
C28_RibbonAttachedToItsArcs ==
    (graph.chord.rendered /\ Categorical(chord.currentSource, chord.currentTarget)) =>
        \A c \in connections(graph.chord) : c.left = c.source /\ c.right = c.target

(***************************************************************************)
(* Properties of the timers after a change of the autoplay speed.          *)
(***************************************************************************)
\* the autoplay speed is no longer the one the page started with
SpeedChanged == settings'.autoPlaySpeed # SettingsInit.autoPlaySpeed

\* the timers of the walk this step scheduled
Scheduled(before, after) ==
    {p.timer : p \in {q \in after : q.timer.due = q.timer.delay}} \ {p.timer : p \in before}

\* C29: after the autoplay-speed setting changes while the sequencer is
\* running, the sequencer restarts and every dwell timer scheduled from then
\* on uses durations derived from the new speed.
C29_TimersUseNewSpeed ==
    [][SpeedChanged =>
          /\ (hist'.last = "speed" /\ Guarded(alluvial)) => Guarded(alluvial')
          /\ (hist'.last = "speed" /\ ChordGuarded(chord)) => ChordGuarded(chord')
          /\ \A t \in Scheduled(PendingTimers(alluvial), PendingTimers(alluvial')) :
                 t.speed = settings'.autoPlaySpeed
          /\ \A t \in Scheduled(PendingTimers(chord), PendingTimers(chord')) :
                 t.speed = settings'.autoPlaySpeed]_vars

(***************************************************************************)
(* Properties of the moderation (SpecModerate).                            *)
(***************************************************************************)
\* C30: after a moderation call for a response succeeds, that response is
\* removed from the pending list and never reappears in it, also when
\* several calls are in flight at the same time and complete in any order;
\* a failed call leaves the list unchanged.
C30_ModeratedNeverPendingAgain ==
    [][/\ admin'.moderated \cap Range(admin'.responses) = {}
       /\ hist'.last = "moderationFailed" => admin'.responses = admin.responses]_vars

=============================================================================
